---- MODULE Spec2Model ----
(***************************************************************************)
(* Model of the USD -> URDF converter of python/capture/src/usdToUrdf4.py  *)
(* (class UsdToUrdfConverter with its mesh exporter, write_material_file   *)
(* and the texture copies of write_material_mdl).  The hierarchy walk of   *)
(* usdToUrdf3.py is the same code line for line.                           *)
(*                                                                         *)
(* A prim path is the sequence of its name components ("/A/body" is        *)
(* <<"A", "body">>, the pseudo-root "/" is <<>>).  A transform is a pair   *)
(* <<r, t>>: the map x |-> r*x + t on one axis, r = 1 or -1 (a half turn), *)
(* so that composition is not commutative.  Gf matrices act on row         *)
(* vectors: A * B applies A first, then B.                                 *)
(***************************************************************************)
EXTENDS Integers, Sequences, FiniteSets, TLC

VARIABLES
    urdf_root,        \* children of self.urdf_root, in document order
    link_id_counter,  \* self.link_id_counter
    joint_id_counter, \* self.joint_id_counter
    transform_stack,  \* self.transform_stack
    visited_links,    \* self.visited_links: set of prim paths
    links,            \* self.links: insertion-ordered dict, as a sequence of entries
    pc,               \* where convert() is: idle, traverse, export, done, raised
    callstack,        \* the activation records of _traverse_prim, innermost first
    scene,            \* the stage opened by the current convert() call
    runs,             \* number of convert() calls made on this converter
    urdf_file,        \* robot.urdf as last written by _export_urdf
    entered,          \* history: paths whose visit went past the visited test, in order
    skipped,          \* history: paths whose visit returned at the visited test
    mat,              \* material writer: the material (shader inputs) being written
    src_fs,           \* material writer: source files, path -> content
    textures,         \* material writer: the output texture directory, name -> content
    mtl,              \* material writer: content of the .mtl file
    copies,           \* material writer: copies done by the last write_material_file
    mat_runs,         \* material writer: number of write_material_file calls
    first_out,        \* material writer: files as they were after the first call
    meshes,           \* the stage's mesh attributes: prim path -> mesh data
    mesh_files,       \* the files of the meshes directory: file path -> lines
    mtl_files,        \* the .mtl files of the materials directory: file path -> lines
    shapes,           \* the stage's primitive attributes: prim path -> radius, height
    quat,             \* _quaternion_to_rpy: its argument (qw, qx, qy, qz)
    rpy,              \* _quaternion_to_rpy: <<>> before the call, <<result>> after it
    shader_name,      \* determine_texture_type: its argument, a shader or output name
    texture_type,     \* determine_texture_type: <<>> before the call, <<result>> after it
    usd,              \* parse_usd_file: the stage's link names and physics-joint prims
    joints,           \* parse_usd_file: the joints list
    parsed,           \* parse_usd_file: "no" before the call, then "yes" or "raised"
    texture_files     \* usdToUrdf.py write_material_file: find_texture_files' dict, in order

conv_vars == <<urdf_root, link_id_counter, joint_id_counter, transform_stack,
               visited_links, links, pc, callstack, scene, runs, urdf_file,
               entered, skipped>>
mat_vars == <<mat, src_fs, textures, mtl, copies, mat_runs, first_out>>
mesh_vars == <<meshes, mesh_files, mtl_files, shapes>>
fn_vars == <<quat, rpy, shader_name, texture_type, usd, joints, parsed,
             texture_files>>
vars == <<urdf_root, link_id_counter, joint_id_counter, transform_stack,
          visited_links, links, pc, callstack, scene, runs, urdf_file,
          entered, skipped, mat, src_fs, textures, mtl, copies, mat_runs,
          first_out, meshes, mesh_files, mtl_files, shapes, quat, rpy,
          shader_name, texture_type, usd, joints, parsed, texture_files>>

\* Number of convert() calls made on one converter object.
MaxRuns == 2

(***************************************************************************)
(* Transforms                                                              *)
(***************************************************************************)
Identity == <<1, 0>>

\* Gf.Matrix4d.__mul__: A * B, A applied first.
Mul(A, B) == <<A[1] * B[1], B[1] * A[2] + B[2]>>

(***************************************************************************)
(* Scenes: what the scene adapter (pxr.Usd) exposes.  nodes[i] is a prim:  *)
(* its path, type name, local transform and children in GetChildren()      *)
(* order; node 1 is the pseudo-root.  openable: Usd.Stage.Open succeeds.   *)
(* faulty: prims on which the adapter raises when asked for the transform. *)
(***************************************************************************)
Prim(path, type, local, children) ==
    [path |-> path, type |-> type, local |-> local, children |-> children]

\* Scenario A: the root holding one mesh.
SceneA ==
    [nodes |-> << Prim(<<>>, "PseudoRoot", Identity, <<2>>),
                  Prim(<<"mesh">>, "Mesh", Identity, <<>>) >>,
     openable |-> TRUE, faulty |-> {}]

\* Scenario B: group -> mesh -> group -> mesh.
SceneB ==
    [nodes |-> << Prim(<<>>, "PseudoRoot", Identity, <<2>>),
                  Prim(<<"G1">>, "Xform", <<1, 1>>, <<3>>),
                  Prim(<<"G1", "M1">>, "Mesh", <<1, 2>>, <<4>>),
                  Prim(<<"G1", "M1", "G2">>, "Xform", <<-1, 3>>, <<5>>),
                  Prim(<<"G1", "M1", "G2", "M2">>, "Mesh", <<1, 1>>, <<>>) >>,
     openable |-> TRUE, faulty |-> {}]

\* Two groups holding equally named meshes, and the primitive shapes.
SceneNames ==
    [nodes |-> << Prim(<<>>, "PseudoRoot", Identity, <<2, 5>>),
                  Prim(<<"A">>, "Xform", <<1, 2>>, <<3, 4>>),
                  Prim(<<"A", "body">>, "Mesh", <<1, 1>>, <<>>),
                  Prim(<<"A", "wheel">>, "Cylinder", <<-1, 0>>, <<>>),
                  Prim(<<"B">>, "Xform", <<-1, 1>>, <<6, 7>>),
                  Prim(<<"B", "body">>, "Mesh", <<1, 3>>, <<>>),
                  Prim(<<"B", "tip">>, "Cone", Identity, <<8>>),
                  Prim(<<"B", "tip", "ball">>, "Sphere", <<1, 1>>, <<>>) >>,
     openable |-> TRUE, faulty |-> {}]

\* A group of three meshes; the adapter raises on the second.
SceneFaulty ==
    [nodes |-> << Prim(<<>>, "PseudoRoot", Identity, <<2>>),
                  Prim(<<"G">>, "Xform", <<1, 1>>, <<3, 4, 5>>),
                  Prim(<<"G", "ok">>, "Mesh", Identity, <<>>),
                  Prim(<<"G", "bad">>, "Mesh", Identity, <<>>),
                  Prim(<<"G", "after">>, "Mesh", Identity, <<>>) >>,
     openable |-> TRUE, faulty |-> {4}]

\* Prims that are neither Xform nor geometric (Scope) above meshes.
SceneScope ==
    [nodes |-> << Prim(<<>>, "PseudoRoot", Identity, <<2, 4>>),
                  Prim(<<"Looks">>, "Scope", Identity, <<3>>),
                  Prim(<<"Looks", "hidden">>, "Mesh", Identity, <<>>),
                  Prim(<<"base">>, "Mesh", <<1, 1>>, <<5>>),
                  Prim(<<"base", "parts">>, "Scope", Identity, <<6>>),
                  Prim(<<"base", "parts", "lid">>, "Mesh", <<1, 2>>, <<>>) >>,
     openable |-> TRUE, faulty |-> {}]

\* A mesh, two nested groups below it, and a cylinder below those.
SceneDeep ==
    [nodes |-> << Prim(<<>>, "PseudoRoot", Identity, <<2>>),
                  Prim(<<"base">>, "Mesh", <<1, 2>>, <<3>>),
                  Prim(<<"base", "X1">>, "Xform", <<-1, 1>>, <<4>>),
                  Prim(<<"base", "X1", "X2">>, "Xform", <<1, 3>>, <<5>>),
                  Prim(<<"base", "X1", "X2", "axle">>, "Cylinder", <<1, 1>>, <<>>) >>,
     openable |-> TRUE, faulty |-> {}]

\* A group of meshes with and without point data, faces and material, and
\* a cylinder between them.
SceneMeshes ==
    [nodes |-> << Prim(<<>>, "PseudoRoot", Identity, <<2>>),
                  Prim(<<"W">>, "Xform", <<1, 1>>, <<3, 4, 5, 6, 7>>),
                  Prim(<<"W", "full">>, "Mesh", Identity, <<>>),
                  Prim(<<"W", "empty">>, "Mesh", <<1, 1>>, <<>>),
                  Prim(<<"W", "nofaces">>, "Mesh", <<1, 2>>, <<>>),
                  Prim(<<"W", "cyl">>, "Cylinder", <<1, 3>>, <<>>),
                  Prim(<<"W", "last">>, "Mesh", <<-1, 1>>, <<>>) >>,
     openable |-> TRUE, faulty |-> {}]

\* A file Usd.Stage.Open cannot open.
SceneUnreadable ==
    [nodes |-> << Prim(<<>>, "PseudoRoot", Identity, <<>>) >>,
     openable |-> FALSE, faulty |-> {}]

\* A node listed as a child by two parents (two parent references).
SceneShared ==
    [nodes |-> << Prim(<<>>, "PseudoRoot", Identity, <<2, 3>>),
                  Prim(<<"G1">>, "Xform", <<1, 1>>, <<4>>),
                  Prim(<<"G2">>, "Xform", <<1, 2>>, <<4>>),
                  Prim(<<"G1", "M">>, "Mesh", <<1, 1>>, <<5>>),
                  Prim(<<"G1", "M", "K">>, "Mesh", <<1, 1>>, <<>>) >>,
     openable |-> TRUE, faulty |-> {}]

\* A mesh listed twice below a mesh, directly and through a group.
SceneSharedLink ==
    [nodes |-> << Prim(<<>>, "PseudoRoot", Identity, <<2>>),
                  Prim(<<"top">>, "Mesh", <<1, 1>>, <<3, 4>>),
                  Prim(<<"top", "arm">>, "Mesh", <<1, 1>>, <<>>),
                  Prim(<<"top", "G">>, "Xform", <<1, 2>>, <<3>>) >>,
     openable |-> TRUE, faulty |-> {}]

TreeScenes ==
    {SceneA, SceneB, SceneNames, SceneDeep, SceneFaulty, SceneScope, SceneUnreadable,
     SceneMeshes}
SharedScenes == {SceneShared, SceneSharedLink}

NoScene == [nodes |-> <<>>, openable |-> FALSE, faulty |-> {}]

NodeIds(s) == DOMAIN s.nodes

\* prim.GetParent(): the prim whose path is this path less its last component
\* (0 for the pseudo-root).
ParentOf(s, n) ==
    LET p == s.nodes[n].path
    IN  IF p = <<>> THEN 0
        ELSE CHOOSE m \in NodeIds(s) : s.nodes[m].path = SubSeq(p, 1, Len(p) - 1)

\* UsdGeom.Xformable(prim).ComputeLocalToWorldTransform: the prim's local
\* transform followed by those of all its ancestors.
RECURSIVE LocalToWorld(_, _)
LocalToWorld(s, n) ==
    IF ParentOf(s, n) = 0 THEN s.nodes[n].local
    ELSE Mul(s.nodes[n].local, LocalToWorld(s, ParentOf(s, n)))

(***************************************************************************)
(* The converter (usdToUrdf4.py, class UsdToUrdfConverter)                 *)
(***************************************************************************)
GroupTypes == {"PseudoRoot", "Xform"}

\* os.path.basename of a path string: its last component, "" for "/".
Basename(p) == IF p = <<>> THEN "" ELSE p[Len(p)]

\* bool(element) of xml.etree.ElementTree: an element is true iff it has
\* children.
ElementTruth(e) == Len(e.children) # 0

\* Mutant: the visited test never fires.
NeverVisited(path, visited) == FALSE

\* `prim_path in self.visited_links`
AlreadyVisited(path, visited) == path \in visited

\* Mutant: the type test forgets the cone.
is_geometric_prim_no_cone(type) ==
    \/ type = "Mesh"
    \/ type = "Cylinder"
    \/ type = "Sphere"

\* _is_geometric_prim
is_geometric_prim(type) ==
    \/ type = "Mesh"
    \/ type = "Cylinder"
    \/ type = "Sphere"
    \/ type = "Cone"

\* _generate_link_name: <<name, counter after>>.  A name is a sequence of
\* tokens: <<"body">> is "body", <<"link_", 0>> is "link_0".  The basename
\* holds no "/", so replace("/", "_") leaves it as it is.
generate_link_name(path, counter) ==
    IF Basename(path) = ""
    THEN << <<"link_", counter>>, counter + 1 >>
    ELSE << <<Basename(path)>>, counter >>

\* _generate_joint_name: the basename with "_joint" appended is never empty,
\* so the counter branch is dead.
generate_joint_name(path, counter) ==
    << <<Basename(path), "_joint">>, counter >>

\* _transform_to_origin: the <origin> element, xyz from the translation row
\* and rpy from the rotation block; it has attributes and no children.
transform_to_origin(T) == [xyz |-> T[2], rpy |-> T[1], children |-> <<>>]

\* `if origin: parent.append(origin)`: the origin children the element gets.
AppendedOrigin(T) ==
    IF ElementTruth(transform_to_origin(T)) THEN <<transform_to_origin(T)>> ELSE <<>>

\* f"{usd_prim_path.replace('/', '_')}.stl": "/A/body" gives "_A_body.stl",
\* as the sequence of its pieces.
StlPath(path) ==
    [i \in 1..(2 * Len(path)) |-> IF i % 2 = 1 THEN "_" ELSE path[i \div 2]]
        \o <<".stl">>

\* The radius and height attributes of the stage's primitives.  A value is
\* the decimal text of the float Get() returns, wrapped: <<"0.5">>; <<>> is
\* Get() returning None (no value).
Shape(radius, height) == [radius |-> radius, height |-> height]
NoShape == Shape(<<>>, <<>>)
ShapeLibrary ==
    (<<"A", "wheel">> :> Shape(<<"0.5">>, <<"1.5">>))
        @@ (<<"B", "tip", "ball">> :> Shape(<<"0.25">>, <<>>))
        @@ (<<"W", "cyl">> :> Shape(<<"0.5">>, <<>>))

\* GetRadiusAttr().Get() / GetHeightAttr().Get() of the prim at path.
ShapeOf(sh, path) == IF path \in DOMAIN sh THEN sh[path] ELSE NoShape

\* `value or default` on a float or None: None and 0.0 are false.
OrDefault(v, default) ==
    IF v = <<>> \/ v = <<"0.0">> THEN default ELSE v[1]

\* The defaults of _add_cylinder_geometry, _add_sphere_geometry and
\* _add_cone_geometry.
DefaultRadius == "0.1"
DefaultHeight == "0.2"

\* An element below <geometry>: its tag and its attributes, <<>> for an
\* attribute it does not have.  owner tells the objects apart: the block
\* ("visual" or "collision") whose <geometry> holds the element.
GeometryElement(tag, filename, radius, length, owner) ==
    [tag |-> tag, filename |-> filename, radius |-> radius, length |-> length,
     owner |-> owner]

\* _add_mesh_geometry: the <mesh> element and its filename attribute.
add_mesh_geometry(path) == GeometryElement("mesh", StlPath(path), <<>>, <<>>, "visual")

\* _add_cylinder_geometry: radius and length, f"{value}" of each.
add_cylinder_geometry(shape) ==
    GeometryElement("cylinder", <<>>, <<OrDefault(shape.radius, DefaultRadius)>>,
                    <<OrDefault(shape.height, DefaultHeight)>>, "visual")

\* _add_sphere_geometry: radius only.
add_sphere_geometry(shape) ==
    GeometryElement("sphere", <<>>, <<OrDefault(shape.radius, DefaultRadius)>>,
                    <<>>, "visual")

\* _add_cone_geometry: radius and length.
add_cone_geometry(shape) ==
    GeometryElement("cone", <<>>, <<OrDefault(shape.radius, DefaultRadius)>>,
                    <<OrDefault(shape.height, DefaultHeight)>>, "visual")

\* The children of the visual <geometry>: the if/elif chain of _create_link
\* over the prim's type; no branch, no child.
Geometry(type, path, shape) ==
    IF type = "Mesh" THEN <<add_mesh_geometry(path)>>
    ELSE IF type = "Cylinder" THEN <<add_cylinder_geometry(shape)>>
    ELSE IF type = "Sphere" THEN <<add_sphere_geometry(shape)>>
    ELSE IF type = "Cone" THEN <<add_cone_geometry(shape)>>
    ELSE <<>>

\* The children of the collision <geometry>: `if len(geometry):` a new
\* element with the tag and the attributes of geometry[0].
CollisionGeometry(geometry) ==
    IF Len(geometry) # 0
    THEN <<GeometryElement(geometry[1].tag, geometry[1].filename,
                           geometry[1].radius, geometry[1].length, "collision")>>
    ELSE <<>>

\* A child element of a block: tag, attributes as <<name, value>> pairs, and
\* made, the ET.SubElement call that created the object.
Element(tag, attrib, made) == [tag |-> tag, attrib |-> attrib, made |-> made]

\* ET.SubElement(parent, tag, ...) followed by parent.append(<that element>):
\* SubElement has attached the element already, append attaches it again.
SubElementAppended(tag, attrib, made) ==
    <<Element(tag, attrib, made), Element(tag, attrib, made)>>

\* The children of <visual> and of <collision>: the origin, then <geometry>.
BlockChildren(block) ==
    SubElementAppended("origin", <<>>, <<block, "origin">>)
        \o <<Element("geometry", <<>>, <<block, "geometry">>)>>

\* The children of <inertial>: mass, then inertia.
InertialChildren ==
    SubElementAppended("mass", << <<"value", "1.0">> >>, <<"inertial", "mass">>)
        \o SubElementAppended("inertia",
                              << <<"ixx", "0.1">>, <<"ixy", "0.0">>, <<"ixz", "0.0">>,
                                 <<"iyy", "0.1">>, <<"iyz", "0.0">>, <<"izz", "0.1">> >>,
                              <<"inertial", "inertia">>)

\* str() of a link element, what joint.set("parent", <element>) makes the
\* serializer write: "<Element 'link' at 0x...>", the address standing for
\* the element.
ElementRepr(link) == <<"<Element 'link' at ", link, ">">>

\* _create_link: the <link> element appended to urdf_root.  path, src and
\* transform record the prim, its scene and the transform argument.
create_link(name, s, n, T, sh) ==
    [tag |-> "link", name |-> name, type |-> <<>>,
     path |-> s.nodes[n].path, src |-> s,
     transform |-> T, origin |-> AppendedOrigin(T),
     children |-> AppendedOrigin(T) \o <<"visual", "collision", "inertial">>,
     visual |-> BlockChildren("visual"),
     geometry |-> Geometry(s.nodes[n].type, s.nodes[n].path,
                           ShapeOf(sh, s.nodes[n].path)),
     collision |-> BlockChildren("collision"),
     collision_geometry |->
         CollisionGeometry(Geometry(s.nodes[n].type, s.nodes[n].path,
                                    ShapeOf(sh, s.nodes[n].path))),
     inertial |-> InertialChildren,
     parent |-> 0, child |-> 0, parent_attr |-> <<>>, child_attr |-> <<>>]

\* Mutant: the parent Link is given as the child as well.
create_joint_to_parent(name, parent_link, child_link, s, n, T) ==
    [tag |-> "joint", name |-> name, type |-> <<"fixed">>,
     path |-> s.nodes[n].path, src |-> s,
     transform |-> T, origin |-> AppendedOrigin(T),
     children |-> AppendedOrigin(T),
     visual |-> <<>>, geometry |-> <<>>, collision |-> <<>>,
     collision_geometry |-> <<>>, inertial |-> <<>>,
     parent |-> parent_link, child |-> parent_link,
     parent_attr |-> ElementRepr(parent_link),
     child_attr |-> ElementRepr(parent_link)]

\* _create_joint: the <joint> element; parent and child are the link
\* elements themselves, named here by their position in urdf_root.
create_joint(name, parent_link, child_link, s, n, T) ==
    [tag |-> "joint", name |-> name, type |-> <<"fixed">>,
     path |-> s.nodes[n].path, src |-> s,
     transform |-> T, origin |-> AppendedOrigin(T),
     children |-> AppendedOrigin(T),
     visual |-> <<>>, geometry |-> <<>>, collision |-> <<>>,
     collision_geometry |-> <<>>, inertial |-> <<>>,
     parent |-> parent_link, child |-> child_link,
     parent_attr |-> ElementRepr(parent_link),
     child_attr |-> ElementRepr(child_link)]

\* Mutant: a Joint for every prim but the root, parent Link or not.
WantsJointAlways(is_root, parent_link, root) == ~is_root

\* `not is_root and parent_link`: parent_link is None (0) or a link element.
WantsJoint(is_root, parent_link, root) ==
    /\ ~is_root
    /\ parent_link # 0
    /\ ElementTruth(root[parent_link])

\* self.links[link_name] = {...}: a dict keeps the position of a key that is
\* assigned again.
DictSet(d, name, entry) ==
    IF \E i \in DOMAIN d : d[i].name = name
    THEN [i \in DOMAIN d |-> IF d[i].name = name THEN entry ELSE d[i]]
    ELSE Append(d, entry)

\* local_transform of _traverse_prim: the prim's local-to-world transform,
\* multiplied by the top of the stack when there is one.
ComposedTransform(stack, s, n) ==
    IF stack # <<>>
    THEN Mul(stack[Len(stack)], LocalToWorld(s, n))
    ELSE LocalToWorld(s, n)

Frame(n, parent_link, is_root) ==
    [node |-> n, parent_link |-> parent_link, is_root |-> is_root,
     at |-> "enter", i |-> 1, child_parent |-> 0, pops |-> FALSE]

ConvInit ==
    /\ urdf_root = <<>>
    /\ link_id_counter = 0
    /\ joint_id_counter = 0
    /\ transform_stack = <<>>
    /\ visited_links = {}
    /\ links = <<>>
    /\ pc = "idle"
    /\ callstack = <<>>
    /\ scene = NoScene
    /\ runs = 0
    /\ urdf_file = <<>>
    /\ entered = <<>>
    /\ skipped = {}

\* Mutant: convert() without the test of the opened stage: the walk starts
\* on whatever Usd.Stage.Open returned.
ConvertUnchecked(s) ==
    /\ pc \in {"idle", "done", "raised"}
    /\ runs < MaxRuns
    /\ runs' = runs + 1
    /\ scene' = s
    /\ pc' = "traverse"
    /\ callstack' = <<Frame(1, 0, TRUE)>>
    /\ UNCHANGED <<urdf_root, link_id_counter, joint_id_counter, transform_stack,
                   visited_links, links, urdf_file, entered, skipped>>

\* convert(), up to the call of _traverse_prim on the pseudo-root; a stage
\* that cannot be opened raises ValueError.
Convert(s) ==
    /\ pc \in {"idle", "done", "raised"}
    /\ runs < MaxRuns
    /\ runs' = runs + 1
    /\ scene' = s
    /\ IF s.openable
       THEN /\ pc' = "traverse"
            /\ callstack' = <<Frame(1, 0, TRUE)>>
       ELSE /\ pc' = "raised"
            /\ callstack' = <<>>
    /\ UNCHANGED <<urdf_root, link_id_counter, joint_id_counter, transform_stack,
                   visited_links, links, urdf_file, entered, skipped>>

ConvertFrom(S) == \E s \in S : Convert(s)

\* _traverse_prim from its first line to its first recursive call (or to its
\* return when it makes none).
Enter ==
    /\ pc = "traverse"
    /\ callstack # <<>>
    /\ callstack[1].at = "enter"
    /\ LET f == callstack[1]
           n == f.node
           prim == scene.nodes[n]
           T == ComposedTransform(transform_stack, scene, n)
           ln == generate_link_name(prim.path, link_id_counter)
           jn == generate_joint_name(prim.path, joint_id_counter)
           link == Len(urdf_root) + 1
       IN  IF AlreadyVisited(prim.path, visited_links)
           THEN \* already visited: return
                /\ callstack' = Tail(callstack)
                /\ skipped' = skipped \cup {prim.path}
                /\ UNCHANGED <<urdf_root, link_id_counter, joint_id_counter,
                               transform_stack, visited_links, links, pc, entered>>
           ELSE /\ visited_links' = visited_links \cup {prim.path}
                /\ entered' = Append(entered, prim.path)
                /\ skipped' = skipped
                /\ IF n \in scene.faulty
                   THEN \* the adapter raises: the exception leaves every
                        \* active _traverse_prim and convert()
                        /\ pc' = "raised"
                        /\ callstack' = <<>>
                        /\ UNCHANGED <<urdf_root, link_id_counter, joint_id_counter,
                                       transform_stack, links>>
                   ELSE IF prim.type \in GroupTypes
                   THEN \* pseudo-root or Xform: push, then the children
                        /\ transform_stack' = Append(transform_stack, T)
                        /\ callstack' = <<[f EXCEPT !.at = "loop",
                                                    !.child_parent = f.parent_link,
                                                    !.pops = TRUE]>>
                                        \o Tail(callstack)
                        /\ UNCHANGED <<urdf_root, link_id_counter, joint_id_counter,
                                       links, pc>>
                   ELSE IF is_geometric_prim(prim.type)
                   THEN \* a Link, a Joint below a parent Link, then the children
                        /\ link_id_counter' = ln[2]
                        /\ links' = DictSet(links, ln[1],
                                       [name |-> ln[1], mesh_path |-> prim.path,
                                        translation |-> LocalToWorld(scene, n)[2]])
                        /\ IF WantsJoint(f.is_root, f.parent_link,
                                         Append(urdf_root, create_link(ln[1], scene, n, T, shapes)))
                           THEN /\ urdf_root' = urdf_root \o
                                      << create_link(ln[1], scene, n, T, shapes),
                                         create_joint(jn[1], f.parent_link, link,
                                                      scene, n, T) >>
                                /\ joint_id_counter' = jn[2]
                           ELSE /\ urdf_root' = Append(urdf_root,
                                                   create_link(ln[1], scene, n, T, shapes))
                                /\ joint_id_counter' = joint_id_counter
                        /\ callstack' = <<[f EXCEPT !.at = "loop",
                                                    !.child_parent = link,
                                                    !.pops = FALSE]>>
                                        \o Tail(callstack)
                        /\ UNCHANGED <<transform_stack, pc>>
                   ELSE \* any other prim: nothing to do, return
                        /\ callstack' = Tail(callstack)
                        /\ UNCHANGED <<urdf_root, link_id_counter, joint_id_counter,
                                       transform_stack, links, pc>>
    /\ UNCHANGED <<scene, runs, urdf_file>>

\* Mutant: the children are taken last to first.
GetChildrenReversed(s, n) ==
    [i \in DOMAIN s.nodes[n].children |->
        s.nodes[n].children[Len(s.nodes[n].children) + 1 - i]]

\* prim.GetChildren(): the children in the order the adapter exposes them.
GetChildren(s, n) == s.nodes[n].children

\* `for child_prim in prim.GetChildren(): self._traverse_prim(child_prim, ...)`:
\* the call for the next child.
Call ==
    /\ pc = "traverse"
    /\ callstack # <<>>
    /\ callstack[1].at = "loop"
    /\ LET f == callstack[1]
           kids == GetChildren(scene, f.node)
       IN  /\ f.i <= Len(kids)
           /\ callstack' = <<Frame(kids[f.i], f.child_parent, FALSE),
                             [f EXCEPT !.i = f.i + 1]>> \o Tail(callstack)
    /\ UNCHANGED <<urdf_root, link_id_counter, joint_id_counter, transform_stack,
                   visited_links, links, pc, scene, runs, urdf_file, entered,
                   skipped>>

\* The end of the loop over the children: a group pops its transform, and
\* _traverse_prim returns.
Return ==
    /\ pc = "traverse"
    /\ callstack # <<>>
    /\ callstack[1].at = "loop"
    /\ LET f == callstack[1]
       IN  /\ f.i > Len(GetChildren(scene, f.node))
           /\ transform_stack' =
                  IF f.pops
                  THEN SubSeq(transform_stack, 1, Len(transform_stack) - 1)
                  ELSE transform_stack
           /\ callstack' = Tail(callstack)
    /\ UNCHANGED <<urdf_root, link_id_counter, joint_id_counter, visited_links,
                   links, pc, scene, runs, urdf_file, entered, skipped>>

\* The end of convert() once the meshes are exported: _export_urdf writes
\* the tree to robot.urdf.
Finish ==
    /\ pc = "export"
    /\ callstack = <<>>
    /\ urdf_file' = urdf_root
    /\ pc' = "done"
    /\ UNCHANGED <<urdf_root, link_id_counter, joint_id_counter, transform_stack,
                   visited_links, links, callstack, scene, runs, entered, skipped>>

(***************************************************************************)
(* The material writer (usdToUrdf4.py, write_material_file)                *)
(*                                                                         *)
(* A shader input holding a texture is <<>> (no attribute, None) or        *)
(* <<path>>, path the asset's resolvedPath as a sequence of components;    *)
(* the resolved path of an asset the resolver cannot find is "" (<<>>).    *)
(* A scalar input is <<>> or <<value>>.  A line of the .mtl file is a      *)
(* record: the directive, its text argument and its numeric argument.      *)
(***************************************************************************)
\* Number of write_material_file calls made for one material file.
MaxMatRuns == 2

Line(key, text, num) == [key |-> key, text |-> text, num |-> num]
Blank == Line("", "", 0)

WoodA == <<"a", "wood.png">>
WoodB == <<"b", "wood.png">>
OrmA == <<"a", "orm.png">>
BumpA == <<"a", "bump.png">>
Unresolved == <<>>

\* os.path.exists(os.path.join(textures_dir, name)): joining "" gives the
\* texture directory itself, which exists.
DestExists(tex, name) == name = "" \/ name \in DOMAIN tex

\* shutil.copy2(src, dest) succeeds iff the source file can be read.
CanCopy(fs, src) == src \in DOMAIN fs

\* The texture directory after shutil.copy2(src, textures_dir/basename(src)).
CopyInto(tex, fs, src) ==
    [n \in DOMAIN tex \cup {Basename(src)} |->
        IF n = Basename(src) THEN fs[src] ELSE tex[n]]

\* `if not os.path.exists(dest_texture): shutil.copy2(src_texture, dest_texture)`
NeedsCopy(tex, name) == ~DestExists(tex, name)

\* One texture block of write_material_file: under the block's condition,
\* copy unless the destination exists, then write the directives; an
\* exception of the copy is caught and skips the directives; then a blank
\* line.  st is [tex, out, copies]: texture directory, lines written, copies
\* made.
TextureBlock(st, fs, cond, input, keys) ==
    IF ~cond
    THEN [st EXCEPT !.out = Append(@, Blank)]
    ELSE LET src == input[1]
             name == Basename(src)
             refs == [k \in DOMAIN keys |-> Line(keys[k], name, 0)]
         IN  IF ~NeedsCopy(st.tex, name)
             THEN [st EXCEPT !.out = @ \o refs \o <<Blank>>]
             ELSE IF CanCopy(fs, src)
             THEN [tex |-> CopyInto(st.tex, fs, src),
                   out |-> st.out \o refs \o <<Blank>>,
                   copies |-> Append(st.copies, src)]
             ELSE [st EXCEPT !.out = Append(@, Blank)]

\* The lines before the texture blocks: newmtl and the scalar directives.
ScalarLines(m) ==
    << Line("#", "Material file", 0), Line("newmtl", m.name, 0), Blank,
       Line("Ni", "", 1), Line("d", "", 1), Line("illum", "", 2), Blank >>
    \o (IF m.diffuse_color_constant # <<>>
        THEN << Line("Ka", "", m.diffuse_color_constant[1]),
                Line("Kd", "", m.diffuse_color_constant[1]) >>
        ELSE << Line("Ka", "", 1), Line("Kd", "", 1) >>)
    \o <<Blank>>
    \o (IF m.specular_level # <<>>
        THEN << Line("Ks", "", m.specular_level[1]) >>
        ELSE << Line("Ks", "", 1) >>)
    \o <<Blank>>
    \o (IF m.roughness # <<>>
        THEN << Line("Ns", "", 1000 * (1 - m.roughness[1])) >>
        ELSE << Line("Ns", "96.078431", 0) >>)
    \o <<Blank>>

\* The "# PBR" lines between the normal-map block and the second ORM block.
PbrLines(m) ==
    << Line("#", "PBR", 0) >>
    \o (IF m.roughness # <<>> THEN << Line("Pr", "", m.roughness[1]) >> ELSE <<>>)
    \o <<Blank>>
    \o (IF m.metallic # <<>> THEN << Line("Pm", "", m.metallic[1]) >> ELSE <<>>)
    \o <<Blank>>

\* A texture block whose copy raises: the destination is missing and the
\* source cannot be read.
BlockFails(st, fs, cond, input) ==
    /\ cond
    /\ NeedsCopy(st.tex, Basename(input[1]))
    /\ ~CanCopy(fs, input[1])

\* write_material_file with one try around all the blocks instead of one per
\* block: the first copy that raises ends the writing of the file.
write_material_file_one_try(m, tex, fs) ==
    LET orm == m.enable_ORM_texture /\ m.ORM_texture # <<>>
        s0 == [tex |-> tex, out |-> ScalarLines(m), copies |-> <<>>]
        s1 == TextureBlock(s0, fs, m.diffuse_texture # <<>>, m.diffuse_texture,
                           <<"map_Kd">>)
        s2 == TextureBlock(s1, fs, orm, m.ORM_texture,
                           <<"map_Ks", "map_Ns", "map_Ka">>)
        s3 == TextureBlock(s2, fs, m.normalmap_texture # <<>>, m.normalmap_texture,
                           <<"map_dump">>)
        s4 == [s3 EXCEPT !.out = @ \o PbrLines(m)]
    IN  IF BlockFails(s0, fs, m.diffuse_texture # <<>>, m.diffuse_texture) THEN s0
        ELSE IF BlockFails(s1, fs, orm, m.ORM_texture) THEN s1
        ELSE IF BlockFails(s2, fs, m.normalmap_texture # <<>>, m.normalmap_texture)
        THEN s2
        ELSE TextureBlock(s4, fs, orm, m.ORM_texture, <<"Pm", "Pr", "Ao">>)

\* write_material_file: the file is opened for writing (emptied), then the
\* scalar lines, the diffuse, ORM and normal-map blocks, the PBR lines and
\* the second ORM block.
write_material_file(m, tex, fs) ==
    LET orm == m.enable_ORM_texture /\ m.ORM_texture # <<>>
        s0 == [tex |-> tex, out |-> ScalarLines(m), copies |-> <<>>]
        s1 == TextureBlock(s0, fs, m.diffuse_texture # <<>>, m.diffuse_texture,
                           <<"map_Kd">>)
        s2 == TextureBlock(s1, fs, orm, m.ORM_texture,
                           <<"map_Ks", "map_Ns", "map_Ka">>)
        s3 == TextureBlock(s2, fs, m.normalmap_texture # <<>>, m.normalmap_texture,
                           <<"map_dump">>)
        s4 == [s3 EXCEPT !.out = @ \o PbrLines(m)]
    IN  TextureBlock(s4, fs, orm, m.ORM_texture, <<"Pm", "Pr", "Ao">>)

\* The materials, source files and texture directories the writer is run on.
Materials ==
    [name : {"Mat"},
     diffuse_texture : {<<>>, <<WoodA>>, <<Unresolved>>},
     ORM_texture : {<<>>, <<OrmA>>, <<WoodB>>},
     enable_ORM_texture : BOOLEAN,
     normalmap_texture : {<<>>, <<BumpA>>},
     diffuse_color_constant : {<<>>},
     specular_level : {<<>>},
     roughness : {<<>>, <<0>>},
     metallic : {<<>>, <<1>>}]

\* content of every source file that can exist
SourceContent == [p \in {WoodA, WoodB, OrmA, BumpA} |->
                    IF p = WoodA THEN 1 ELSE IF p = WoodB THEN 2
                    ELSE IF p = OrmA THEN 3 ELSE 4]

Restrict(f, S) == [x \in S |-> f[x]]

MatInit ==
    /\ mat \in Materials
    /\ \E S \in {{WoodA, WoodB, OrmA, BumpA}, {WoodB, OrmA, BumpA}, {WoodA},
                 {WoodA, BumpA}} :
           src_fs = Restrict(SourceContent, S)
    /\ \E T \in {{}, {"wood.png"}} : textures = [n \in T |-> 9]
    /\ mtl = <<>>
    /\ copies = <<>>
    /\ mat_runs = 0
    /\ first_out = <<>>

\* A call write_material_file(material, mtl_path, textures_dir, stage).
WriteMaterialFile ==
    /\ mat_runs < MaxMatRuns
    /\ LET r == write_material_file(mat, textures, src_fs)
       IN  /\ textures' = r.tex
           /\ mtl' = r.out
           /\ copies' = r.copies
           /\ first_out' = IF mat_runs = 0
                           THEN <<[mtl |-> r.out, textures |-> r.tex,
                                   copies |-> r.copies]>>
                           ELSE first_out
    /\ mat_runs' = mat_runs + 1
    /\ UNCHANGED <<mat, src_fs>>

\* The material writer at rest while the converter's walk is looked at.
MatIdle ==
    /\ mat = [name |-> "Mat", diffuse_texture |-> <<>>, ORM_texture |-> <<>>,
              enable_ORM_texture |-> FALSE, normalmap_texture |-> <<>>,
              diffuse_color_constant |-> <<>>, specular_level |-> <<>>,
              roughness |-> <<>>, metallic |-> <<>>]
    /\ src_fs = Restrict(SourceContent, {WoodB, OrmA, BumpA})
    /\ textures = <<>>
    /\ mtl = <<>>
    /\ copies = <<>>
    /\ mat_runs = 0
    /\ first_out = <<>>

(***************************************************************************)
(* The mesh exporter (usdToUrdf4.py, export_meshes)                        *)
(*                                                                         *)
(* Mesh data: points, normals and st are sequences, <<>> standing for an   *)
(* attribute without value and for an empty array alike (the code tests    *)
(* their truth only); a point, normal or texture coordinate is a number    *)
(* standing for its coordinates.  face_vertex_counts and                   *)
(* face_vertex_indices are <<>> (no value, None) or <<array>>.  material   *)
(* is <<>> or <<shader inputs of the bound material>>.  A line of an .obj  *)
(* file is a record: the keyword, its text pieces, its number and, for a   *)
(* face, its index groups <<v, vt, vn>> (0: the field is left out).        *)
(***************************************************************************)
ObjLine(key, text, num, groups) ==
    [key |-> key, text |-> text, num |-> num, groups |-> groups]

MeshData(points, normals, st, counts, indices, material) ==
    [points |-> points, normals |-> normals, st |-> st,
     face_vertex_counts |-> counts, face_vertex_indices |-> indices,
     material |-> material]

\* A material without textures, and one with a diffuse, an ORM and a
\* normal-map texture.
PlainMat ==
    [name |-> "Mat", diffuse_texture |-> <<>>, ORM_texture |-> <<>>,
     enable_ORM_texture |-> FALSE, normalmap_texture |-> <<>>,
     diffuse_color_constant |-> <<>>, specular_level |-> <<>>,
     roughness |-> <<>>, metallic |-> <<>>]
WoodMat ==
    [PlainMat EXCEPT !.name = "Wood", !.diffuse_texture = <<WoodA>>,
                     !.ORM_texture = <<OrmA>>, !.enable_ORM_texture = TRUE,
                     !.normalmap_texture = <<BumpA>>]

\* A triangle and a quad with normals, texture coordinates and a material.
FullMesh ==
    MeshData(<<11, 12, 13, 14>>, <<21, 22, 23, 24>>, <<31, 32, 33, 34>>,
             << <<3, 4>> >>, << <<0, 1, 2, 0, 2, 3, 1>> >>, <<WoodMat>>)
\* One triangle, nothing else.
BareMesh ==
    MeshData(<<11, 12, 13>>, <<>>, <<>>, << <<3>> >>, << <<0, 1, 2>> >>, <<>>)
\* No point data.
EmptyMesh == MeshData(<<>>, <<>>, <<>>, << <<>> >>, << <<>> >>, <<>>)
\* Points, but faceVertexCounts and faceVertexIndices without value.
NoFacesMesh == MeshData(<<11, 12>>, <<>>, <<>>, <<>>, <<>>, <<PlainMat>>)
\* Two triangles with normals only.
NormalsMesh ==
    MeshData(<<11, 12, 13>>, <<21, 22, 23>>, <<>>, << <<3, 3>> >>,
             << <<0, 1, 2, 2, 1, 0>> >>, <<>>)

\* The mesh attributes of the scenes' prims; a Mesh prim that is not
\* listed has the attributes of BareMesh.
MeshLibrary ==
    LET P == {<<"mesh">>, <<"W", "full">>, <<"W", "empty">>, <<"W", "nofaces">>,
              <<"W", "last">>}
    IN  [p \in P |->
            IF p = <<"W", "empty">> THEN EmptyMesh
            ELSE IF p = <<"W", "nofaces">> THEN NoFacesMesh
            ELSE IF p = <<"W", "last">> THEN NormalsMesh
            ELSE FullMesh]

MeshOf(md, path) == IF path \in DOMAIN md THEN md[path] ELSE BareMesh

\* stage.GetPrimAtPath(path): the prim, 0 for the invalid prim.
GetPrimAtPath(s, path) ==
    IF \E n \in NodeIds(s) : s.nodes[n].path = path
    THEN CHOOSE n \in NodeIds(s) : s.nodes[n].path = path
    ELSE 0

\* os.path.join(meshes_dir, f"{link_name}.obj") and the .mtl file beside it,
\* relative to the output directory.
ObjPath(link_name) == <<"meshes", "/">> \o link_name \o <<".obj">>
MtlPath(link_name) == <<"materials", "/">> \o link_name \o <<".mtl">>

\* open(path, "w") ... close: the file holds the lines written.
FileSet(files, path, lines) ==
    [p \in DOMAIN files \cup {path} |-> IF p = path THEN lines ELSE files[p]]

HeaderLines(link_name) ==
    << ObjLine("#", <<"OBJ file exported from USD">>, 0, <<>>),
       ObjLine("#", <<"Mesh: ">> \o link_name, 0, <<>>) >>

\* `if material_name: f.write(f"mtllib ../materials/{link_name}.mtl\n")`
MtllibLines(material_name, link_name) ==
    IF material_name # <<>>
    THEN <<ObjLine("mtllib", <<"../materials/">> \o link_name \o <<".mtl">>,
                   0, <<>>)>>
    ELSE <<>>

\* `for point in points: f.write(f"v ...")`
VertexLines(points) ==
    [i \in DOMAIN points |-> ObjLine("v", <<>>, points[i], <<>>)]

\* Mutant: the normals loop stops one short.
NormalLinesButLast(normals) ==
    [i \in 1..(Len(normals) - 1) |-> ObjLine("vn", <<>>, normals[i], <<>>)]

\* `if normals: for normal in normals: f.write(f"vn ...")`
NormalLines(normals) ==
    IF normals # <<>>
    THEN [i \in DOMAIN normals |-> ObjLine("vn", <<>>, normals[i], <<>>)]
    ELSE <<>>

\* `if tex_coords: for coord in tex_coords: f.write(f"vt ...")`
TexCoordLines(tex_coords) ==
    IF tex_coords # <<>>
    THEN [i \in DOMAIN tex_coords |-> ObjLine("vt", <<>>, tex_coords[i], <<>>)]
    ELSE <<>>

\* seq[a:b] of Python for 0 <= a <= b: the elements at (0-based) a .. b-1
\* that exist.
Slice(seq, a, b) == SubSeq(seq, a + 1, IF b < Len(seq) THEN b ELSE Len(seq))

\* Mutant: the index is written as it is in the buffer, 0-based.
FaceGroupZeroBased(idx, tex_coords, normals) ==
    IF tex_coords # <<>> /\ normals # <<>> THEN <<idx, idx, idx>>
    ELSE IF tex_coords # <<>> THEN <<idx, idx, 0>>
    ELSE IF normals # <<>> THEN <<idx, 0, idx>>
    ELSE <<idx, 0, 0>>

\* One index group of a face line: "v/v/v", "v/v", "v//v" or "v" for
\* v = idx + 1.
FaceGroup(idx, tex_coords, normals) ==
    LET vertex_idx == idx + 1
    IN  IF tex_coords # <<>> /\ normals # <<>>
        THEN <<vertex_idx, vertex_idx, vertex_idx>>
        ELSE IF tex_coords # <<>> THEN <<vertex_idx, vertex_idx, 0>>
        ELSE IF normals # <<>> THEN <<vertex_idx, 0, vertex_idx>>
        ELSE <<vertex_idx, 0, 0>>

\* Mutant: the material group is written before every face.
UsemtlEveryFace(material_name, i) ==
    IF material_name # <<>>
    THEN <<ObjLine("usemtl", material_name, 0, <<>>)>>
    ELSE <<>>

\* `if material_name and i == 0: f.write(f"usemtl {material_name}\n")`
UsemtlLines(material_name, i) ==
    IF material_name # <<>> /\ i = 0
    THEN <<ObjLine("usemtl", material_name, 0, <<>>)>>
    ELSE <<>>

\* The face loop from its i-th round (i counts from 0) with
\* current_vertex_index = cur.
RECURSIVE FaceLines(_, _, _, _, _, _, _)
FaceLines(counts, indices, material_name, tex_coords, normals, i, cur) ==
    IF i >= Len(counts) THEN <<>>
    ELSE LET count == counts[i + 1]
             chunk == Slice(indices, cur, cur + count)
         IN  UsemtlLines(material_name, i)
             \o <<ObjLine("f", <<>>, 0,
                          [k \in DOMAIN chunk |->
                              FaceGroup(chunk[k], tex_coords, normals)])>>
             \o FaceLines(counts, indices, material_name, tex_coords, normals,
                          i + 1, cur + count)

\* material.GetPrim().GetName() of the bound material, <<>> for None.
MaterialName(mesh) ==
    IF mesh.material # <<>> THEN <<mesh.material[1].name>> ELSE <<>>

\* The face loop raises TypeError when face_vertex_counts is None
\* (enumerate(None)) or when a face is sliced out of a None index buffer.
FaceLoopRaises(mesh) ==
    \/ mesh.face_vertex_counts = <<>>
    \/ /\ mesh.face_vertex_counts[1] # <<>>
       /\ mesh.face_vertex_indices = <<>>

\* The lines in the .obj file when the `with open(obj_path, "w")` block is
\* left, normally or by an exception of the face loop (the lines written
\* before it stay in the file).
ObjFile(link_name, mesh) ==
    HeaderLines(link_name)
    \o MtllibLines(MaterialName(mesh), link_name)
    \o VertexLines(mesh.points)
    \o NormalLines(mesh.normals)
    \o TexCoordLines(mesh.st)
    \o IF FaceLoopRaises(mesh) THEN <<>>
       ELSE FaceLines(mesh.face_vertex_counts[1], mesh.face_vertex_indices[1],
                      MaterialName(mesh), mesh.st, mesh.normals, 0, 0)

\* The texture directory after write_material_mdl: the diffuse, ORM and
\* normal-map textures are copied unless present, inside one try, so that
\* the first copy that raises ends the function.  The texture inputs used
\* here are resolved assets, whose authored and resolved paths have the same
\* basename.  The .mdl file itself is not part of the model.
RECURSIVE MdlCopies(_, _, _)
MdlCopies(tex, fs, inputs) ==
    IF inputs = <<>> THEN tex
    ELSE IF Head(inputs) = <<>> THEN MdlCopies(tex, fs, Tail(inputs))
    ELSE IF Basename(Head(inputs)[1]) \in DOMAIN tex
    THEN MdlCopies(tex, fs, Tail(inputs))
    ELSE IF CanCopy(fs, Head(inputs)[1])
    THEN MdlCopies(CopyInto(tex, fs, Head(inputs)[1]), fs, Tail(inputs))
    ELSE tex

write_material_mdl(m, tex, fs) ==
    MdlCopies(tex, fs, <<m.diffuse_texture, m.ORM_texture, m.normalmap_texture>>)

\* One round of the loop of export_meshes.  st is [obj, mtl, tex]: the
\* meshes directory, the .mtl files and the texture directory.
ExportLink(st, s, md, fs, link_data) ==
    LET mesh_prim == GetPrimAtPath(s, link_data.mesh_path)
        link_name == link_data.name
        mesh == MeshOf(md, link_data.mesh_path)
    IN  IF mesh_prim = 0 \/ s.nodes[mesh_prim].type # "Mesh" THEN st
        ELSE IF mesh.points = <<>> THEN st
        ELSE IF mesh.material = <<>>
        THEN [st EXCEPT !.obj = FileSet(@, ObjPath(link_name),
                                        ObjFile(link_name, mesh))]
        ELSE LET r == write_material_file(mesh.material[1], st.tex, fs)
             IN  [obj |-> FileSet(st.obj, ObjPath(link_name),
                                  ObjFile(link_name, mesh)),
                  mtl |-> FileSet(st.mtl, MtlPath(link_name), r.out),
                  tex |-> write_material_mdl(mesh.material[1], r.tex, fs)]

\* export_meshes: `for link_name, link_data in links.items()`, from the
\* i-th entry on.
RECURSIVE export_meshes(_, _, _, _, _, _)
export_meshes(st, s, md, fs, lks, i) ==
    IF i > Len(lks) THEN st
    ELSE export_meshes(ExportLink(st, s, md, fs, lks[i]), s, md, fs, lks, i + 1)

MeshInit ==
    /\ meshes = MeshLibrary
    /\ mesh_files = <<>>
    /\ mtl_files = <<>>
    /\ shapes = ShapeLibrary

\* convert() between the walk and _export_urdf: the call of export_meshes.
ExportMeshes ==
    /\ pc = "traverse"
    /\ callstack = <<>>
    /\ LET r == export_meshes([obj |-> mesh_files, mtl |-> mtl_files,
                               tex |-> textures],
                              scene, meshes, src_fs, links, 1)
       IN  /\ mesh_files' = r.obj
           /\ mtl_files' = r.mtl
           /\ textures' = r.tex
    /\ pc' = "export"
    /\ UNCHANGED <<urdf_root, link_id_counter, joint_id_counter, transform_stack,
                   visited_links, links, callstack, scene, runs, urdf_file,
                   entered, skipped, mat, src_fs, mtl, copies, mat_runs,
                   first_out, meshes, shapes, fn_vars>>

\* The meshes the exporter is run on, one at a time: with and without
\* normals, texture coordinates and material, and with no, an empty, one
\* and two faces.
MeshInputs ==
    {MeshData(p, n, t, f[1], f[2], m) :
        p \in {<<>>, <<11, 12, 13>>},
        n \in {<<>>, <<21, 22>>, <<21, 22, 23>>},
        t \in {<<>>, <<31, 32, 33>>},
        f \in {<< <<>>, <<>> >>,
               << << <<>> >>, << <<>> >> >>,
               << << <<3>> >>, << <<0, 1, 2>> >> >>,
               << << <<2, 4>> >>, << <<0, 1, 2, 1, 0, 2>> >> >>},
        m \in {<<>>, <<PlainMat>>, <<WoodMat>>}}

(***************************************************************************)
(* The origin's roll, pitch and yaw                                        *)
(***************************************************************************)
\* 1.0 in the fixed-point numbers the quaternion components are given in.
Unit == 10000

\* A quaternion as Gf.Quatd gives it: GetReal() and GetImaginary().
Quat(qw, qx, qy, qz) == [qw |-> qw, qx |-> qx, qy |-> qy, qz |-> qz]

\* np.arcsin(v), v in units of 1/Unit^2: nan outside [-1, 1] (no exception
\* is raised), the arc sine of v inside.  The value is kept as the function
\* and its argument y/x, x being 1.
arcsin(v) == [fn |-> "arcsin", y |-> v, x |-> Unit * Unit,
              nan |-> (v > Unit * Unit \/ v < -(Unit * Unit))]

\* np.arctan2(y, x): defined for every pair.
arctan2(y, x) == [fn |-> "arctan2", y |-> y, x |-> x, nan |-> FALSE]

\* _quaternion_to_rpy: (roll, pitch, yaw).
quaternion_to_rpy(q) ==
    [roll |-> arctan2(2 * (q.qw * q.qx + q.qy * q.qz),
                      Unit * Unit - 2 * (q.qx * q.qx + q.qy * q.qy)),
     pitch |-> arcsin(2 * (q.qw * q.qy - q.qz * q.qx)),
     yaw |-> arctan2(2 * (q.qw * q.qz + q.qx * q.qy),
                     Unit * Unit - 2 * (q.qy * q.qy + q.qz * q.qz))]

\* The components tried: 0, 1/2, 1 and sqrt(1/2) rounded down and up to the
\* last digit, with either sign.
Components == {-10000, -7072, -7071, -5000, 0, 5000, 7071, 7072, 10000}

\* The quaternions of rotations: of norm 1 up to the rounding of the
\* components.
QuatInputs ==
    {q \in {Quat(w, x, y, z) : w \in Components, x \in Components,
                               y \in Components, z \in Components} :
        LET n2 == q.qw * q.qw + q.qx * q.qx + q.qy * q.qy + q.qz * q.qz
        IN  n2 >= Unit * Unit - 3 * Unit /\ n2 <= Unit * Unit + 3 * Unit}

\* No call of parse_usd_file under way.
ParseIdle ==
    /\ usd = [links |-> <<>>, prims |-> <<>>, getter |-> TRUE]
    /\ joints = <<>>
    /\ parsed = "no"
    /\ texture_files = <<>>

\* No call of the functions under way.
FnIdle ==
    /\ quat = Quat(Unit, 0, 0, 0)
    /\ rpy = <<>>
    /\ shader_name = ""
    /\ texture_type = <<>>
    /\ ParseIdle

InitRpy ==
    /\ ConvInit
    /\ MeshInit
    /\ MatIdle
    /\ quat \in QuatInputs
    /\ rpy = <<>>
    /\ shader_name = ""
    /\ texture_type = <<>>
    /\ ParseIdle

\* rpy = self._quaternion_to_rpy(quat)
QuaternionToRpy ==
    /\ rpy = <<>>
    /\ rpy' = <<quaternion_to_rpy(quat)>>
    /\ UNCHANGED <<quat, shader_name, texture_type, usd, joints, parsed, texture_files>>

NextRpy == QuaternionToRpy /\ UNCHANGED <<conv_vars, mat_vars, mesh_vars>>

SpecRpy == InitRpy /\ [][NextRpy]_vars

(***************************************************************************)
(* The semantic type of a texture                                          *)
(***************************************************************************)
Uppers == "ABCDEFGHIJKLMNOPQRSTUVWXYZ"
Lowers == "abcdefghijklmnopqrstuvwxyz"

\* str.lower() of one character.
LowerChar(c) ==
    IF \E i \in 1..Len(Uppers) : SubSeq(Uppers, i, i) = c
    THEN LET i == CHOOSE k \in 1..Len(Uppers) : SubSeq(Uppers, k, k) = c
         IN  SubSeq(Lowers, i, i)
    ELSE c

\* str.lower()
RECURSIVE lower(_)
lower(s) ==
    IF s = "" THEN ""
    ELSE LowerChar(SubSeq(s, 1, 1)) \o lower(SubSeq(s, 2, Len(s)))

\* `word in s` on strings.
In(word, s) ==
    \E i \in 1..(Len(s) - Len(word) + 1) : SubSeq(s, i, i + Len(word) - 1) = word

\* Mutant: the normal test comes before the diffuse test.
determine_texture_type_normal_first(nm) ==
    LET n == lower(nm)
    IN  IF In("normal", n) \/ In("bump", n) THEN "normal"
        ELSE IF In("diffuse", n) \/ In("albedo", n) \/ In("basecolor", n) THEN "diffuse"
        ELSE IF In("roughness", n) THEN "roughness"
        ELSE IF In("metallic", n) \/ In("metalness", n) THEN "metallic"
        ELSE IF In("specular", n) THEN "specular"
        ELSE IF In("emissive", n) THEN "emissive"
        ELSE IF In("opacity", n) \/ In("alpha", n) THEN "opacity"
        ELSE "unknown_" \o n

\* determine_texture_type
determine_texture_type(nm) ==
    LET n == lower(nm)
    IN  IF In("diffuse", n) \/ In("albedo", n) \/ In("basecolor", n) THEN "diffuse"
        ELSE IF In("normal", n) \/ In("bump", n) THEN "normal"
        ELSE IF In("roughness", n) THEN "roughness"
        ELSE IF In("metallic", n) \/ In("metalness", n) THEN "metallic"
        ELSE IF In("specular", n) THEN "specular"
        ELSE IF In("emissive", n) THEN "emissive"
        ELSE IF In("opacity", n) \/ In("alpha", n) THEN "opacity"
        ELSE "unknown_" \o n

\* Pieces of shader and output names, in lower, upper and mixed case.
NamePieces ==
    {"Diffuse", "ALBEDO", "baseColor", "Normal", "BUMP", "Roughness",
     "METALLIC", "Metalness", "specular", "Emissive", "opacity", "Alpha",
     "Tex", "_out1"}

\* The names tried: one piece, or two pieces joined.
NameInputs == NamePieces \cup {a \o b : a \in NamePieces, b \in NamePieces}

InitTexType ==
    /\ ConvInit
    /\ MeshInit
    /\ MatIdle
    /\ quat = Quat(Unit, 0, 0, 0)
    /\ rpy = <<>>
    /\ shader_name \in NameInputs
    /\ texture_type = <<>>
    /\ ParseIdle

\* texture_type = determine_texture_type(shader.GetPrim().GetName())
DetermineTextureType ==
    /\ texture_type = <<>>
    /\ texture_type' = <<determine_texture_type(shader_name)>>
    /\ UNCHANGED <<quat, rpy, shader_name, usd, joints, parsed, texture_files>>

NextTexType == DetermineTextureType /\ UNCHANGED <<conv_vars, mat_vars, mesh_vars>>

SpecTexType == InitTexType /\ [][NextTexType]_vars

(***************************************************************************)
(* Physics joints (usdToUrdf.py)                                           *)
(***************************************************************************)
\* A prim of a physics-joint type: its name, its type name, and the values
\* of its axis, lowerLimit and upperLimit attributes (<<>>: no value).
JointPrim(nm, kind, axis, lo, hi) ==
    [name |-> nm, kind |-> kind, axis |-> axis, lower |-> lo, upper |-> hi]

\* UsdPhysics.<Schema>(prim) as a truth value: the prim is of that type.
IsSchema(prim, schema) == prim.kind = schema

\* _is_joint: one of the four listed schemas holds the prim.
is_joint(prim) ==
    \/ IsSchema(prim, "RevoluteJoint")
    \/ IsSchema(prim, "PrismaticJoint")
    \/ IsSchema(prim, "SphericalJoint")
    \/ IsSchema(prim, "FixedJoint")

\* _get_joint_type
get_joint_type(prim) ==
    IF IsSchema(prim, "RevoluteJoint") THEN "revolute"
    ELSE IF IsSchema(prim, "PrismaticJoint") THEN "prismatic"
    ELSE IF IsSchema(prim, "SphericalJoint") THEN "spherical"
    ELSE IF IsSchema(prim, "FixedJoint") THEN "fixed"
    ELSE IF IsSchema(prim, "D6Joint") THEN "continuous"
    ELSE "fixed"

\* _get_joint_limit_info(joint), class being the Python class of the joint
\* object: isinstance tests on it, the limits with effort and velocity when
\* both have a value, None (<<>>) when the dict stays empty.
get_joint_limit_info(class, prim) ==
    IF class \in {"RevoluteJoint", "PrismaticJoint"}
           /\ prim.lower # <<>> /\ prim.upper # <<>>
    THEN <<[lower |-> prim.lower[1], upper |-> prim.upper[1],
            effort |-> "100.0", velocity |-> "1.0"]>>
    ELSE <<>>

\* _extract_joint_info: joint = UsdPhysics.Joint(prim), an object of class
\* Joint; the dict with type, axis and limit.
extract_joint_info(prim) ==
    [name |-> prim.name,
     type |-> get_joint_type(prim),
     axis |-> prim.axis,
     limit |-> IF get_joint_type(prim) \in {"revolute", "prismatic"}
               THEN get_joint_limit_info("Joint", prim)
               ELSE <<>>]

\* zip(links.keys(), list(links.keys())[1:])
LinkPairs(keys) ==
    [i \in 1..(IF Len(keys) = 0 THEN 0 ELSE Len(keys) - 1) |-> <<keys[i], keys[i + 1]>>]

\* The dict parse_usd_file appends to joints for one pair of links.
JointDict(joint_name, joint_info, pair) ==
    [name |-> joint_name, type |-> "fixed",
     parent |-> pair[1], child |-> pair[2],
     origin_xyz |-> <<0, 0, 0>>, origin_rpy |-> <<0, 0, 0>>]

\* The joint loop of parse_usd_file over stage.Traverse(): for a joint prim
\* the joint info is extracted (joint.GetAxisAttr() on the Joint object
\* raises when the adapter's Joint class has no such getter), then one dict
\* per pair of adjacent link names is appended.
RECURSIVE parse_joints(_, _, _, _)
parse_joints(stage, i, acc, getter) ==
    IF i > Len(stage.prims) THEN [raised |-> FALSE, joints |-> acc]
    ELSE IF ~is_joint(stage.prims[i]) THEN parse_joints(stage, i + 1, acc, getter)
    ELSE IF ~getter THEN [raised |-> TRUE, joints |-> acc]
    ELSE parse_joints(stage, i + 1,
             acc \o [k \in DOMAIN LinkPairs(stage.links) |->
                        JointDict(stage.prims[i].name,
                                  extract_joint_info(stage.prims[i]),
                                  LinkPairs(stage.links)[k])],
             getter)

\* The physics-joint prims tried.
JointPrims ==
    {JointPrim("hinge", "RevoluteJoint", <<"X">>, <<"-45.0">>, <<"45.0">>),
     JointPrim("free_hinge", "RevoluteJoint", <<"Z">>, <<>>, <<>>),
     JointPrim("slider", "PrismaticJoint", <<"Y">>, <<"0.0">>, <<"0.5">>),
     JointPrim("ball", "SphericalJoint", <<"X">>, <<>>, <<>>),
     JointPrim("weld", "FixedJoint", <<>>, <<>>, <<>>),
     JointPrim("d6", "D6Joint", <<>>, <<>>, <<>>)}

\* The stages tried: up to three mesh names in links, up to two joint
\* prims; getter: the adapter's Joint class offers GetAxisAttr.
UsdInputs ==
    {[links |-> l, prims |-> p, getter |-> g] :
        l \in {<<>>, <<"base">>, <<"base", "arm">>, <<"base", "arm", "hand">>},
        p \in {<<>>} \cup {<<a>> : a \in JointPrims}
                     \cup {<<a, b>> : a \in JointPrims, b \in JointPrims},
        g \in BOOLEAN}

InitJoints ==
    /\ ConvInit
    /\ MeshInit
    /\ MatIdle
    /\ quat = Quat(Unit, 0, 0, 0)
    /\ rpy = <<>>
    /\ shader_name = ""
    /\ texture_type = <<>>
    /\ usd \in UsdInputs
    /\ joints = <<>>
    /\ parsed = "no"
    /\ texture_files = <<>>

\* links, joints, stage = self.parse_usd_file(usd_file_path): the joints.
ParseUsdFile ==
    /\ parsed = "no"
    /\ LET r == parse_joints(usd, 1, <<>>, usd.getter)
       IN  /\ joints' = r.joints
           /\ parsed' = IF r.raised THEN "raised" ELSE "yes"
    /\ UNCHANGED <<quat, rpy, shader_name, texture_type, usd, texture_files>>

NextJoints == ParseUsdFile /\ UNCHANGED <<conv_vars, mat_vars, mesh_vars>>

SpecJoints == InitJoints /\ [][NextJoints]_vars

(***************************************************************************)
(* The material writer of usdToUrdf.py: textures by semantic type          *)
(***************************************************************************)
SpecA == <<"a", "spec.png">>
MiscA == <<"a", "misc.png">>

\* content of every source file that can exist for this writer
TypedSourceContent == SourceContent @@ (SpecA :> 5) @@ (MiscA :> 6)

\* An entry of the dict find_texture_files returns.
TextureFile(type, path) == [type |-> type, path |-> path]

\* texture_files[type], wrapped; <<>> when `type in texture_files` is false.
Lookup(files, type) ==
    IF \E i \in DOMAIN files : files[i].type = type
    THEN <<files[CHOOSE i \in DOMAIN files : files[i].type = type].path>>
    ELSE <<>>

\* One try block of the writer: copy unless the destination exists, then
\* write the directives of keys; an exception of the copy skips them.
\* st is [tex, out, copies].
CopyAndRefer(st, fs, src, keys) ==
    LET refs == [k \in DOMAIN keys |-> Line(keys[k], Basename(src), 0)]
    IN  IF ~NeedsCopy(st.tex, Basename(src))
        THEN [st EXCEPT !.out = @ \o refs]
        ELSE IF CanCopy(fs, src)
        THEN [tex |-> CopyInto(st.tex, fs, src),
              out |-> st.out \o refs,
              copies |-> Append(st.copies, src)]
        ELSE st

\* The directives the last loop writes for a type: map_Pr, map_Pm, or none.
OtherKeys(type) ==
    IF type = "roughness" THEN <<"map_Pr">>
    ELSE IF type = "metallic" THEN <<"map_Pm">>
    ELSE <<>>

\* `for tex_type, tex_path in texture_files.items()`, from entry i on.
RECURSIVE OtherTextures(_, _, _, _)
OtherTextures(st, fs, files, i) ==
    IF i > Len(files) THEN st
    ELSE IF files[i].type \in {"diffuse", "normal"}
    THEN OtherTextures(st, fs, files, i + 1)
    ELSE OtherTextures(CopyAndRefer(st, fs, files[i].path, OtherKeys(files[i].type)),
                       fs, files, i + 1)

\* The lines written before the textures.
DefaultLines(material_name) ==
    << Line("#", "Material file", 0), Line("newmtl", material_name, 0),
       Line("Ns", "96.078431", 0), Line("Ka", "1.000000 1.000000 1.000000", 0),
       Line("Kd", "1.000000 1.000000 1.000000", 0),
       Line("Ks", "1.000000 1.000000 1.000000", 0),
       Line("Ni", "1.000000", 0), Line("d", "1.000000", 0), Line("illum", "2", 0) >>

\* write_material_file of usdToUrdf.py, files being find_texture_files'
\* result: the diffuse block, the normal block, then every other type.
write_material_file_by_type(material_name, files, tex, fs) ==
    LET s0 == [tex |-> tex, out |-> DefaultLines(material_name), copies |-> <<>>]
        s1 == IF Lookup(files, "diffuse") # <<>>
              THEN CopyAndRefer(s0, fs, Lookup(files, "diffuse")[1], <<"map_Kd">>)
              ELSE s0
        s2 == IF Lookup(files, "normal") # <<>>
              THEN CopyAndRefer(s1, fs, Lookup(files, "normal")[1], <<"map_bump">>)
              ELSE s1
    IN  OtherTextures(s2, fs, files, 1)

\* The entries a dict of find_texture_files is made of here, in the order
\* they are inserted.
TypedTextures ==
    << TextureFile("diffuse", WoodA), TextureFile("normal", BumpA),
       TextureFile("roughness", OrmA), TextureFile("metallic", OrmA),
       TextureFile("specular", SpecA), TextureFile("unknown_misc", MiscA) >>

\* The entries of TypedTextures at the positions in S, in order.
RECURSIVE Pick(_, _)
Pick(S, i) ==
    IF i > Len(TypedTextures) THEN <<>>
    ELSE (IF i \in S THEN <<TypedTextures[i]>> ELSE <<>>) \o Pick(S, i + 1)

TextureFilesInputs == {Pick(S, 1) : S \in SUBSET DOMAIN TypedTextures}

InitTyped ==
    /\ ConvInit
    /\ MeshInit
    /\ quat = Quat(Unit, 0, 0, 0)
    /\ rpy = <<>>
    /\ shader_name = ""
    /\ texture_type = <<>>
    /\ usd = [links |-> <<>>, prims |-> <<>>, getter |-> TRUE]
    /\ joints = <<>>
    /\ parsed = "no"
    /\ texture_files \in TextureFilesInputs
    /\ mat = [name |-> "Mat", diffuse_texture |-> <<>>, ORM_texture |-> <<>>,
              enable_ORM_texture |-> FALSE, normalmap_texture |-> <<>>,
              diffuse_color_constant |-> <<>>, specular_level |-> <<>>,
              roughness |-> <<>>, metallic |-> <<>>]
    /\ \E S \in {DOMAIN TypedSourceContent, DOMAIN TypedSourceContent \ {SpecA, WoodA}} :
           src_fs = Restrict(TypedSourceContent, S)
    /\ \E T \in {{}, {"wood.png"}} : textures = [n \in T |-> 9]
    /\ mtl = <<>>
    /\ copies = <<>>
    /\ mat_runs = 0
    /\ first_out = <<>>

\* A call write_material_file(material, mtl_path, textures_dir, stage) of
\* usdToUrdf.py.
WriteMaterialFileByType ==
    /\ mat_runs < MaxMatRuns
    /\ LET r == write_material_file_by_type(mat.name, texture_files, textures, src_fs)
       IN  /\ textures' = r.tex
           /\ mtl' = r.out
           /\ copies' = r.copies
           /\ first_out' = IF mat_runs = 0
                           THEN <<[mtl |-> r.out, textures |-> r.tex,
                                   copies |-> r.copies]>>
                           ELSE first_out
    /\ mat_runs' = mat_runs + 1
    /\ UNCHANGED <<mat, src_fs>>

NextTyped == WriteMaterialFileByType /\ UNCHANGED <<conv_vars, mesh_vars, fn_vars>>

SpecTyped == InitTyped /\ [][NextTyped]_vars

(***************************************************************************)
(* Specifications                                                          *)
(***************************************************************************)
Init == ConvInit /\ MeshInit /\ MatIdle /\ FnIdle

\* One converter object, used for up to MaxRuns conversions of tree scenes.
Next ==
    \/ ConvertFrom(TreeScenes) /\ UNCHANGED <<mat_vars, mesh_vars, fn_vars>>
    \/ Enter /\ UNCHANGED <<mat_vars, mesh_vars, fn_vars>>
    \/ Call /\ UNCHANGED <<mat_vars, mesh_vars, fn_vars>>
    \/ Return /\ UNCHANGED <<mat_vars, mesh_vars, fn_vars>>
    \/ ExportMeshes
    \/ Finish /\ UNCHANGED <<mat_vars, mesh_vars, fn_vars>>

Spec == Init /\ [][Next]_vars

\* The same, the scenes with a node listed by two parents included.
NextShared ==
    \/ ConvertFrom(TreeScenes \cup SharedScenes) /\ UNCHANGED <<mat_vars, mesh_vars, fn_vars>>
    \/ Enter /\ UNCHANGED <<mat_vars, mesh_vars, fn_vars>>
    \/ Call /\ UNCHANGED <<mat_vars, mesh_vars, fn_vars>>
    \/ Return /\ UNCHANGED <<mat_vars, mesh_vars, fn_vars>>
    \/ ExportMeshes
    \/ Finish /\ UNCHANGED <<mat_vars, mesh_vars, fn_vars>>

SpecShared == Init /\ [][NextShared]_vars

\* The material writer, run up to MaxMatRuns times on one material.
InitMat == ConvInit /\ MeshInit /\ MatInit /\ FnIdle

NextMat == WriteMaterialFile /\ UNCHANGED <<conv_vars, mesh_vars, fn_vars>>

SpecMat == InitMat /\ [][NextMat]_vars

\* The conversion of the one-mesh scene, for every mesh of MeshInputs.
InitObj ==
    /\ ConvInit
    /\ MatIdle
    /\ FnIdle
    /\ \E m \in MeshInputs : meshes = [p \in {<<"mesh">>} |-> m]
    /\ mesh_files = <<>>
    /\ mtl_files = <<>>
    /\ shapes = ShapeLibrary

NextObj ==
    \/ ConvertFrom({SceneA}) /\ UNCHANGED <<mat_vars, mesh_vars, fn_vars>>
    \/ Enter /\ UNCHANGED <<mat_vars, mesh_vars, fn_vars>>
    \/ Call /\ UNCHANGED <<mat_vars, mesh_vars, fn_vars>>
    \/ Return /\ UNCHANGED <<mat_vars, mesh_vars, fn_vars>>
    \/ ExportMeshes
    \/ Finish /\ UNCHANGED <<mat_vars, mesh_vars, fn_vars>>

SpecObj == InitObj /\ [][NextObj]_vars

\* The values a primitive's radius or height attribute is given: none, zero
\* and a positive one.
AttrValues == {<<>>, <<"0.0">>, <<"0.5">>}

\* The conversion of the scene with a cylinder, a cone and a sphere, for
\* every choice of their radius and height attributes.
InitShape ==
    /\ ConvInit
    /\ MatIdle
    /\ FnIdle
    /\ meshes = MeshLibrary
    /\ mesh_files = <<>>
    /\ mtl_files = <<>>
    /\ \E cr \in AttrValues, ch \in AttrValues, kr \in AttrValues,
          kh \in AttrValues, sr \in AttrValues :
           shapes = (<<"A", "wheel">> :> Shape(cr, ch))
                        @@ (<<"B", "tip">> :> Shape(kr, kh))
                        @@ (<<"B", "tip", "ball">> :> Shape(sr, <<>>))

NextShape ==
    \/ ConvertFrom({SceneNames}) /\ UNCHANGED <<mat_vars, mesh_vars, fn_vars>>
    \/ Enter /\ UNCHANGED <<mat_vars, mesh_vars, fn_vars>>
    \/ Call /\ UNCHANGED <<mat_vars, mesh_vars, fn_vars>>
    \/ Return /\ UNCHANGED <<mat_vars, mesh_vars, fn_vars>>
    \/ ExportMeshes
    \/ Finish /\ UNCHANGED <<mat_vars, mesh_vars, fn_vars>>

SpecShape == InitShape /\ [][NextShape]_vars


(***************************************************************************)
(* Properties                                                              *)
(***************************************************************************)
LinkIdx == {i \in DOMAIN urdf_root : urdf_root[i].tag = "link"}
JointIdx == {i \in DOMAIN urdf_root : urdf_root[i].tag = "joint"}

GeometricTypes == {"Mesh", "Cylinder", "Sphere", "Cone"}

\* The node of scene s with the given path.
NodeOf(s, path) == CHOOSE n \in NodeIds(s) : s.nodes[n].path = path

\* The nearest proper ancestor of n that is geometric, 0 when there is none.
RECURSIVE NearestGeometricAncestor(_, _)
NearestGeometricAncestor(s, n) ==
    LET m == ParentOf(s, n)
    IN  IF m = 0 THEN 0
        ELSE IF s.nodes[m].type \in GeometricTypes THEN m
        ELSE NearestGeometricAncestor(s, m)

\* The inverse of a rigid transform (r is 1 or -1).
Inverse(A) == <<A[1], 0 - A[1] * A[2]>>

\* The transform R with C = R * P: the frame C as seen from the frame P.
Relative(P, C) == Mul(C, Inverse(P))

\* The paths of the geometric prims met by a depth-first walk from n that
\* goes through groups and geometric prims only, in pre-order.
RECURSIVE WalkFrom(_, _), WalkEach(_, _)
WalkFrom(s, n) ==
    IF s.nodes[n].type \in GroupTypes THEN WalkEach(s, s.nodes[n].children)
    ELSE IF s.nodes[n].type \in GeometricTypes
    THEN <<s.nodes[n].path>> \o WalkEach(s, s.nodes[n].children)
    ELSE <<>>
WalkEach(s, kids) ==
    IF kids = <<>> THEN <<>> ELSE WalkFrom(s, Head(kids)) \o WalkEach(s, Tail(kids))

\* The paths of the <link> elements of a document, in document order.
RECURSIVE LinkPaths(_)
LinkPaths(doc) ==
    IF doc = <<>> THEN <<>>
    ELSE (IF Head(doc).tag = "link" THEN <<Head(doc).path>> ELSE <<>>)
         \o LinkPaths(Tail(doc))

\* A fresh converter that completes a run writes the Links of the walk.
FreshRunWritesWalk ==
    (pc = "done" /\ runs = 1) => LinkPaths(urdf_file) = WalkFrom(scene, 1)

\* A visit is about to start on a path that is in the visited set.
AtVisitedPath ==
    /\ pc = "traverse"
    /\ callstack # <<>>
    /\ callstack[1].at = "enter"
    /\ scene.nodes[callstack[1].node].path \in visited_links

\* No path was processed twice, and no path has two Links or two Joints.
ProcessedOnce ==
    /\ \A i, j \in DOMAIN entered : entered[i] = entered[j] => i = j
    /\ \A i, j \in DOMAIN urdf_root :
           (urdf_root[i].tag = urdf_root[j].tag /\ urdf_root[i].path = urdf_root[j].path)
               => i = j

\* C1: a visit of a path that is already in the visited set returns at once
\* (no Link, no Joint, no push, no call for a child), so that no path is
\* processed twice and no path has two Links, however often it is reached.
C1_VisitedReturnsAtOnce ==
    /\ []ProcessedOnce
    /\ [][AtVisitedPath =>
             /\ callstack' = Tail(callstack)
             /\ urdf_root' = urdf_root
             /\ links' = links
             /\ transform_stack' = transform_stack
             /\ visited_links' = visited_links
             /\ entered' = entered]_vars

\* C1 witness: in a first run, a mesh reached a second time has returned at
\* the visited test and has exactly one Link.
C1_Witness ==
    /\ runs = 1
    /\ pc = "done"
    /\ \E p \in skipped :
           /\ scene.nodes[NodeOf(scene, p)].type = "Mesh"
           /\ Cardinality({i \in LinkIdx : urdf_root[i].path = p}) = 1

\* C2: on a fresh converter, during the walk and at the end of a completed
\* run, there are as many Links as distinct geometric prims entered.
C2_LinksEqualGeometricEntered ==
    (runs = 1 /\ pc \in {"traverse", "export", "done"}) =>
        Cardinality(LinkIdx) =
            Cardinality({p \in {entered[k] : k \in DOMAIN entered} :
                            scene.nodes[NodeOf(scene, p)].type \in GeometricTypes})

\* C2 witness: a completed first run that entered a mesh, a cylinder, a cone
\* and a sphere.
C2_Witness ==
    /\ runs = 1
    /\ pc = "done"
    /\ scene = SceneNames
    /\ Cardinality(LinkIdx) = 5

\* C3: a Link has a Joint exactly when its prim has a geometric ancestor; the
\* Joint is the only one with that child and its parent is the Link of the
\* nearest geometric ancestor; only geometric prims have a Link or a Joint;
\* scenario A gives 1 Link and no Joint, scenario B 2 Links and 1 Joint.
C3_JointIffGeometricAncestor ==
    /\ \A i \in LinkIdx :
           LET e == urdf_root[i]
               a == NearestGeometricAncestor(e.src, NodeOf(e.src, e.path))
               js == {j \in JointIdx : urdf_root[j].child = i}
           IN  IF a = 0 THEN js = {}
               ELSE /\ Cardinality(js) = 1
                    /\ \A j \in js :
                           /\ urdf_root[j].parent \in LinkIdx
                           /\ urdf_root[urdf_root[j].parent].path = e.src.nodes[a].path
                           /\ urdf_root[urdf_root[j].parent].src = e.src
    /\ \A j \in JointIdx : urdf_root[j].child \in LinkIdx
    /\ \A i \in DOMAIN urdf_root :
           LET e == urdf_root[i]
           IN  e.src.nodes[NodeOf(e.src, e.path)].type \in GeometricTypes
    /\ (runs = 1 /\ pc = "done" /\ scene = SceneA) =>
           (Cardinality(LinkIdx) = 1 /\ JointIdx = {})
    /\ (runs = 1 /\ pc = "done" /\ scene = SceneB) =>
           (Cardinality(LinkIdx) = 2 /\ Cardinality(JointIdx) = 1)

\* C3 witness: scenario B converted: one Joint from the Link of M1 to the
\* Link of M2, a group lying between them.
C3_Witness ==
    /\ runs = 1
    /\ pc = "done"
    /\ scene = SceneB
    /\ \E j \in JointIdx :
           /\ urdf_root[urdf_root[j].parent].path = <<"G1", "M1">>
           /\ urdf_root[urdf_root[j].child].path = <<"G1", "M1", "G2", "M2">>
    /\ urdf_root[1].path = <<"G1", "M1">>
    /\ \A j \in JointIdx : urdf_root[j].child # 1

\* C4: every Joint has an origin, the relative transform between the frame
\* of its parent Link's prim and the frame of its child's prim.
C4_JointOriginRelative ==
    \A j \in JointIdx :
        LET e == urdf_root[j]
            P == LocalToWorld(e.src, NodeOf(e.src, urdf_root[e.parent].path))
            C == LocalToWorld(e.src, NodeOf(e.src, urdf_root[e.child].path))
        IN  /\ e.transform = Relative(P, C)
            /\ e.origin = <<transform_to_origin(Relative(P, C))>>

\* C5: the transform computed for a prim and handed to its Link applies the
\* local transform of the prim and of each ancestor exactly once.
C5_ComposedOncePerAncestor ==
    \A i \in LinkIdx :
        LET e == urdf_root[i]
        IN  e.transform = LocalToWorld(e.src, NodeOf(e.src, e.path))

\* C6: the transform stack is empty whenever convert() has finished, by
\* returning or by raising.
C6_StackBalanced ==
    pc \in {"done", "raised"} => transform_stack = <<>>

\* C7: a completed run writes the Links a fresh converter writes for the
\* scene, whatever the converter has converted before.
C7_ReuseEqualsFresh ==
    pc = "done" =>
        /\ LinkPaths(urdf_file) = WalkFrom(scene, 1)
        /\ \A i \in DOMAIN urdf_file : urdf_file[i].src = scene

\* C8: no path of a group (the pseudo-root or an Xform) of the scene is in
\* the visited set.
C8_OnlyGeometricVisited ==
    \A n \in NodeIds(scene) :
        scene.nodes[n].type \in GroupTypes => scene.nodes[n].path \notin visited_links

\* C9: Links of distinct prims have distinct names, and the link table has
\* an entry for every Link.
C9_UniqueLinkNames ==
    /\ \A i, j \in LinkIdx :
           urdf_root[i].path # urdf_root[j].path => urdf_root[i].name # urdf_root[j].name
    /\ Len(links) = Cardinality(LinkIdx)

\* C10: a second (and later) call of the material writer with the same
\* sources and output directory copies nothing and leaves the texture files
\* and the material file as the first call left them; within a call no file
\* name is copied twice.
C10_TextureCopyIdempotent ==
    /\ mat_runs >= 2 =>
           /\ copies = <<>>
           /\ textures = first_out[1].textures
           /\ mtl = first_out[1].mtl
    /\ \A i, j \in DOMAIN copies :
           Basename(copies[i]) = Basename(copies[j]) => i = j

\* The material's diffuse texture names a source file that is not on disk
\* (an asset the resolver could not find, or a resolved file that is gone).
DiffuseSourceMissing ==
    /\ mat.diffuse_texture # <<>>
    /\ mat.diffuse_texture[1] \notin DOMAIN src_fs

\* C11: after a call of the material writer on a material whose diffuse
\* texture has no source file on disk, the material file starts with the
\* newmtl and scalar directives and holds no map_Kd line.
C11_MissingDiffuseOmitsMapKd ==
    (mat_runs >= 1 /\ DiffuseSourceMissing) =>
        /\ Len(mtl) >= Len(ScalarLines(mat))
        /\ SubSeq(mtl, 1, Len(ScalarLines(mat))) = ScalarLines(mat)
        /\ \A i \in DOMAIN mtl : mtl[i].key # "map_Kd"

\* The texture slots of the material: whether the slot is used, its input
\* and the directives that reference it.
TextureSlots ==
    << [cond |-> mat.diffuse_texture # <<>>, input |-> mat.diffuse_texture,
        keys |-> {"map_Kd"}],
       [cond |-> mat.enable_ORM_texture /\ mat.ORM_texture # <<>>,
        input |-> mat.ORM_texture,
        keys |-> {"map_Ks", "map_Ns", "map_Ka", "Pm", "Pr", "Ao"}],
       [cond |-> mat.normalmap_texture # <<>>, input |-> mat.normalmap_texture,
        keys |-> {"map_dump"}] >>

\* The file names that were in the texture directory before the last call.
ExistedBefore == DOMAIN textures \ {Basename(copies[i]) : i \in DOMAIN copies}

\* Every directive of the slot is in the material file, naming its texture.
SlotReferenced(slot) ==
    \A k \in slot.keys :
        \E i \in DOMAIN mtl : mtl[i] = Line(k, Basename(slot.input[1]), 0)

\* The copy of the slot raised in the last call.
SlotFailed(slot) ==
    /\ slot.cond
    /\ slot.input[1] \notin DOMAIN src_fs
    /\ Basename(slot.input[1]) \notin DOMAIN textures
    /\ Basename(slot.input[1]) # ""

\* C12: after a call of the material writer, every used texture slot whose
\* source can be copied, or whose destination was already there, has its
\* file in the texture directory and its directives in the material file,
\* whichever other slots failed.
C12_FailedCopyLeavesOtherSlots ==
    mat_runs >= 1 =>
        \A n \in DOMAIN TextureSlots :
            LET slot == TextureSlots[n] IN
            /\ (slot.cond /\ CanCopy(src_fs, slot.input[1])) =>
                   /\ Basename(slot.input[1]) \in DOMAIN textures
                   /\ SlotReferenced(slot)
            /\ (slot.cond /\ Basename(slot.input[1]) \in ExistedBefore) =>
                   SlotReferenced(slot)

\* The ORM copy failed between a diffuse copy and a normal-map copy that
\* were both made and referenced.
C12_Witness ==
    /\ mat_runs = 1
    /\ SlotFailed(TextureSlots[2])
    /\ copies = <<WoodA, BumpA>>
    /\ SlotReferenced(TextureSlots[1])
    /\ SlotReferenced(TextureSlots[3])

\* The entries of the link table whose mesh the exporter can write: the
\* path resolves to a Mesh prim, the mesh has point data and its export
\* raises nothing.
Exportable ==
    {i \in DOMAIN links :
        /\ GetPrimAtPath(scene, links[i].mesh_path) # 0
        /\ scene.nodes[GetPrimAtPath(scene, links[i].mesh_path)].type = "Mesh"
        /\ MeshOf(meshes, links[i].mesh_path).points # <<>>
        /\ ~FaceLoopRaises(MeshOf(meshes, links[i].mesh_path))}

\* C13: after export_meshes of a first conversion the mesh files in the
\* meshes directory are exactly those of the link-table entries with a
\* resolvable mesh, point data and no export error; every other entry is
\* skipped without a file.
C13_MeshFilesAreExportable ==
    (runs = 1 /\ pc \in {"export", "done"}) =>
        DOMAIN mesh_files = {ObjPath(links[i].name) : i \in Exportable}

\* The geometric prims of the walk on which the adapter raises nothing.
HealthyWalk(s) ==
    SelectSeq(WalkFrom(s, 1), LAMBDA path : NodeOf(s, path) \notin s.faulty)

\* C14: an exception raised while one node is processed ends that node's
\* processing only: a first conversion of a scene that can be opened always
\* ends with the structural description written, holding a Link for every
\* geometric prim of the walk on which nothing was raised.
C14_NodeExceptionSkipsNode ==
    (runs = 1 /\ scene.openable /\ pc \in {"done", "raised"}) =>
        /\ pc = "done"
        /\ \A i \in DOMAIN HealthyWalk(scene) :
               \E j \in DOMAIN urdf_file :
                   /\ urdf_file[j].tag = "link"
                   /\ urdf_file[j].path = HealthyWalk(scene)[i]

\* A first convert() that could not open its scene has left no trace.
AbortedFirstRunIsEmpty ==
    (runs = 1 /\ pc = "raised" /\ ~scene.openable) =>
        /\ callstack = <<>>
        /\ visited_links = {}
        /\ entered = <<>>
        /\ urdf_root = <<>>
        /\ links = <<>>
        /\ urdf_file = <<>>
        /\ mesh_files = <<>>

\* C15: a convert() whose scene cannot be opened aborts before any
\* traversal: the step that starts it ends it as raised, with no node
\* visited, no Link or Joint created and no file written, and nothing but a
\* further convert() follows.
C15_UnopenableSceneAborts ==
    /\ []AbortedFirstRunIsEmpty
    /\ [][(runs' = runs + 1 /\ ~scene'.openable) =>
              /\ pc' = "raised"
              /\ callstack' = <<>>
              /\ UNCHANGED <<visited_links, entered, urdf_root, links, urdf_file,
                             mesh_files, mtl_files, textures>>]_vars
    /\ [][(pc = "raised" /\ ~scene.openable) => runs' = runs + 1]_vars

\* A second convert(), after a completed one, could not open its scene.
C15_Witness ==
    /\ runs = 2
    /\ pc = "raised"
    /\ scene = SceneUnreadable
    /\ urdf_file # <<>>
    /\ urdf_file = urdf_root

\* The lines of a file with the given keyword, in file order, and the
\* numbers they carry.
KeyLines(f, key) == SelectSeq(f, LAMBDA l : l.key = key)
Nums(ls) == [i \in DOMAIN ls |-> ls[i].num]

\* The link-table entries whose mesh file is in the meshes directory.
Written == {i \in DOMAIN links : ObjPath(links[i].name) \in DOMAIN mesh_files}

\* Every v line is before every vn and vt line, every vn line before every
\* vt line.
VertexDataInOrder(f) ==
    \A a, b \in DOMAIN f :
        /\ (f[a].key = "v" /\ f[b].key \in {"vn", "vt"}) => a < b
        /\ (f[a].key = "vn" /\ f[b].key = "vt") => a < b

\* C16: a mesh file holds one v line per point, one vn line per normal
\* (none when the mesh has no normals) and one vt line per texture
\* coordinate (none when it has none), each in the order of its buffer, the
\* v lines first, then the vn lines, then the vt lines.
C16_VertexDataLines ==
    \A i \in Written :
        LET f == mesh_files[ObjPath(links[i].name)]
            mesh == MeshOf(meshes, links[i].mesh_path)
        IN  /\ Nums(KeyLines(f, "v")) = mesh.points
            /\ Nums(KeyLines(f, "vn")) = mesh.normals
            /\ Nums(KeyLines(f, "vt")) = mesh.st
            /\ VertexDataInOrder(f)

\* A written mesh with fewer normals than points and with texture
\* coordinates.
C16_Witness ==
    /\ pc = "done"
    /\ \E i \in Written :
           LET mesh == MeshOf(meshes, links[i].mesh_path)
           IN  /\ Len(mesh.normals) = 2
               /\ Len(mesh.points) = 3
               /\ mesh.st # <<>>
               /\ KeyLines(mesh_files[ObjPath(links[i].name)], "vn") # <<>>

\* The sum of the first k face sizes.
RECURSIVE SumTo(_, _)
SumTo(counts, k) == IF k = 0 THEN 0 ELSE SumTo(counts, k - 1) + counts[k]

\* The index group the face section has to hold for buffer entry idx.
ExpectedGroup(idx, mesh) ==
    <<idx + 1,
      IF mesh.st # <<>> THEN idx + 1 ELSE 0,
      IF mesh.normals # <<>> THEN idx + 1 ELSE 0>>

\* C17: the mesh file of a mesh with face data holds one f line per entry
\* of face_vertex_counts; the k-th f line has face_vertex_counts[k] index
\* groups, those of the k-th consecutive chunk of face_vertex_indices, each
\* index raised by one and written as v/v/v with texture coordinates and
\* normals, v/v with texture coordinates only, v//v with normals only, and v
\* otherwise.
C17_FaceLines ==
    \A i \in Written :
        LET f == KeyLines(mesh_files[ObjPath(links[i].name)], "f")
            mesh == MeshOf(meshes, links[i].mesh_path)
        IN  ~FaceLoopRaises(mesh) =>
                LET counts == mesh.face_vertex_counts[1]
                    indices == mesh.face_vertex_indices[1]
                IN  /\ Len(f) = Len(counts)
                    /\ \A k \in DOMAIN f :
                           /\ Len(f[k].groups) = counts[k]
                           /\ \A j \in 1..counts[k] :
                                  f[k].groups[j] =
                                      ExpectedGroup(indices[SumTo(counts, k - 1) + j],
                                                    mesh)

\* A written mesh with two faces of different size and with normals but no
\* texture coordinates.
C17_Witness ==
    /\ pc = "done"
    /\ \E i \in Written :
           LET mesh == MeshOf(meshes, links[i].mesh_path)
               f == KeyLines(mesh_files[ObjPath(links[i].name)], "f")
           IN  /\ mesh.face_vertex_counts = << <<2, 4>> >>
               /\ mesh.normals # <<>>
               /\ mesh.st = <<>>
               /\ Len(f) = 2
               /\ f[2].groups[1] = <<3, 0, 3>>

\* The positions of the lines of f with one of the given keywords.
Positions(f, keys) == {a \in DOMAIN f : f[a].key \in keys}

\* Exactly one usemtl line, after every v, vn and vt line and before every
\* f line.
OneUsemtlBeforeFaces(f) ==
    /\ Cardinality(Positions(f, {"usemtl"})) = 1
    /\ \A u \in Positions(f, {"usemtl"}) :
           /\ \A a \in Positions(f, {"v", "vn", "vt"}) : a < u
           /\ \A a \in Positions(f, {"f"}) : u < a

\* C18 (as claimed), for the meshes whose export completes: the mesh file
\* of a mesh with a bound material holds exactly one usemtl line, after all
\* v, vn and vt lines and before the first f line; the file of a mesh
\* without bound material holds neither a usemtl nor a mtllib line.
C18_OneUsemtlWhenMaterial ==
    \A i \in Written :
        LET f == mesh_files[ObjPath(links[i].name)]
            mesh == MeshOf(meshes, links[i].mesh_path)
        IN  ~FaceLoopRaises(mesh) =>
                IF mesh.material # <<>>
                THEN OneUsemtlBeforeFaces(f)
                ELSE Positions(f, {"usemtl", "mtllib"}) = {}

\* C18 (amended): the mesh file of a mesh with a bound material holds one
\* mtllib line and, when it holds a face line, exactly one usemtl line,
\* after all v, vn and vt lines and before the first f line; when it holds
\* no face line it holds no usemtl line.  The file of a mesh without bound
\* material holds neither a usemtl nor a mtllib line.
C18_UsemtlWithFirstFace ==
    \A i \in Written :
        LET f == mesh_files[ObjPath(links[i].name)]
            mesh == MeshOf(meshes, links[i].mesh_path)
        IN  IF mesh.material = <<>>
            THEN Positions(f, {"usemtl", "mtllib"}) = {}
            ELSE /\ Cardinality(Positions(f, {"mtllib"})) = 1
                 /\ IF Positions(f, {"f"}) # {}
                    THEN OneUsemtlBeforeFaces(f)
                    ELSE Positions(f, {"usemtl"}) = {}

\* A written mesh with a bound material, vertex data of the three kinds and
\* two faces.
C18_Witness ==
    /\ pc = "done"
    /\ \E i \in Written :
           LET f == mesh_files[ObjPath(links[i].name)]
               mesh == MeshOf(meshes, links[i].mesh_path)
           IN  /\ mesh.material # <<>>
               /\ mesh.normals # <<>>
               /\ mesh.st # <<>>
               /\ Cardinality(Positions(f, {"f"})) = 2
               /\ Positions(f, {"usemtl"}) # {}

\* C19: in a written structural description every Link with mesh geometry
\* references, as its mesh file name, the file the exporter writes for that
\* Link, meshes/<link_name>.obj.
C19_MeshReferenceIsExportedFile ==
    (runs = 1 /\ pc = "done") =>
        \A j \in DOMAIN urdf_file :
            (urdf_file[j].tag = "link" /\ urdf_file[j].geometry[1].tag = "mesh") =>
                urdf_file[j].geometry[1].filename = ObjPath(urdf_file[j].name)

\* C20: every Joint of a written structural description has an origin with
\* xyz and rpy, a parent reference and a child reference, and both
\* references are names of Links of the same document.
C20_JointOriginParentChild ==
    \A j \in DOMAIN urdf_file :
        urdf_file[j].tag = "joint" =>
            /\ urdf_file[j].origin # <<>>
            /\ \E k \in DOMAIN urdf_file :
                   /\ urdf_file[k].tag = "link"
                   /\ urdf_file[k].name = urdf_file[j].parent_attr
            /\ \E k \in DOMAIN urdf_file :
                   /\ urdf_file[k].tag = "link"
                   /\ urdf_file[k].name = urdf_file[j].child_attr

\* The paths of the geometric prims of the scene in depth-first pre-order
\* over every child edge, children in the adapter's order.
RECURSIVE PreorderFrom(_, _), PreorderEach(_, _)
PreorderFrom(s, n) ==
    (IF s.nodes[n].type \in GeometricTypes THEN <<s.nodes[n].path>> ELSE <<>>)
        \o PreorderEach(s, s.nodes[n].children)
PreorderEach(s, kids) ==
    IF kids = <<>> THEN <<>>
    ELSE PreorderFrom(s, Head(kids)) \o PreorderEach(s, Tail(kids))

\* The elements of a keep the order they have in b.
InOrderOf(a, b) ==
    /\ \A i \in DOMAIN a : \E k \in DOMAIN b : b[k] = a[i]
    /\ \A i, j \in DOMAIN a :
           i < j => (CHOOSE k \in DOMAIN b : b[k] = a[i])
                        < (CHOOSE k \in DOMAIN b : b[k] = a[j])

\* C23: in a first conversion the Links are in the depth-first pre-order of
\* the scene's geometric prims, children in the adapter's order, at every
\* moment of the walk and in the written document; the Joint of a prim is
\* the element directly after the prim's Link, and the parent Link of a
\* Joint is earlier in the document than the Joint.
C23_DepthFirstDocumentOrder ==
    /\ runs = 1 =>
           /\ InOrderOf(LinkPaths(urdf_root), PreorderFrom(scene, 1))
           /\ \E k \in 0..Len(WalkFrom(scene, 1)) :
                  LinkPaths(urdf_root) = SubSeq(WalkFrom(scene, 1), 1, k)
    /\ (runs = 1 /\ pc = "done") => LinkPaths(urdf_file) = WalkFrom(scene, 1)
    /\ \A j \in JointIdx :
           /\ j > 1
           /\ urdf_root[j - 1].tag = "link"
           /\ urdf_root[j - 1].path = urdf_root[j].path
           /\ urdf_root[j].child = j - 1
           /\ urdf_root[j].parent \in LinkIdx
           /\ urdf_root[j].parent < j

\* The scene of two groups and five geometric prims converted: the Links
\* in pre-order, a Joint behind the Link of the sphere below the cone.
C23_Witness ==
    /\ runs = 1
    /\ pc = "done"
    /\ scene = SceneNames
    /\ LinkPaths(urdf_file) =
           << <<"A", "body">>, <<"A", "wheel">>, <<"B", "body">>, <<"B", "tip">>,
              <<"B", "tip", "ball">> >>
    /\ urdf_file[Len(urdf_file)].tag = "joint"
    /\ urdf_file[Len(urdf_file)].path = <<"B", "tip", "ball">>

\* The geometric prims of the scene that child edges reach from the root.
ReachableGeometric(s) ==
    {PreorderFrom(s, 1)[k] : k \in DOMAIN PreorderFrom(s, 1)}

\* C27: a completed first conversion of a scene on which nothing is raised
\* has entered every geometric prim reachable from the root by child edges
\* and has written a Link for it, whatever the types of its ancestors.
C27_EveryGeometricPrimHasLink ==
    (runs = 1 /\ pc = "done" /\ scene.faulty = {}) =>
        \A path \in ReachableGeometric(scene) :
            /\ path \in visited_links
            /\ \E i \in DOMAIN urdf_file :
                   urdf_file[i].tag = "link" /\ urdf_file[i].path = path

\* The Joints that have Link i as their child.
JointsInto(i) == {j \in JointIdx : urdf_root[j].child = i}

\* Following the parent references from Link i ends, within fuel steps, at
\* a Link that is no Joint's child.
RECURSIVE ReachesRoot(_, _)
ReachesRoot(i, fuel) ==
    IF JointsInto(i) = {} THEN TRUE
    ELSE IF fuel = 0 THEN FALSE
    ELSE \A j \in JointsInto(i) : ReachesRoot(urdf_root[j].parent, fuel - 1)

\* The Links whose prim has no geometric ancestor in its scene.
RootLinks ==
    {i \in LinkIdx :
        NearestGeometricAncestor(urdf_root[i].src,
                                 NodeOf(urdf_root[i].src, urdf_root[i].path)) = 0}

\* C29: at every moment the Joints form a forest over the Links: a Link is
\* the child of at most one Joint, the parent and the child of a Joint are
\* two different Links, the parent references followed from any Link end at
\* a Link that is no Joint's child, and there are as many Joints as Links
\* whose prim has a geometric ancestor.
C29_JointsFormForest ==
    /\ \A i \in LinkIdx : Cardinality(JointsInto(i)) <= 1
    /\ \A j \in JointIdx :
           /\ urdf_root[j].parent \in LinkIdx
           /\ urdf_root[j].child \in LinkIdx
           /\ urdf_root[j].parent # urdf_root[j].child
    /\ \A i \in LinkIdx : ReachesRoot(i, Cardinality(LinkIdx))
    /\ Cardinality(JointIdx) = Cardinality(LinkIdx) - Cardinality(RootLinks)

\* Five Links, four of them without geometric ancestor, and the one Joint
\* from the cone to the sphere below it.
C29_Witness ==
    /\ pc = "done"
    /\ scene = SceneNames
    /\ Cardinality(LinkIdx) = 5
    /\ Cardinality(RootLinks) = 4
    /\ \E j \in JointIdx :
           /\ urdf_root[urdf_root[j].parent].path = <<"B", "tip">>
           /\ urdf_root[urdf_root[j].child].path = <<"B", "tip", "ball">>

\* The number of children of a block that carry the tag.
CountTag(block, tag) == Cardinality({k \in DOMAIN block : block[k].tag = tag})

\* The origin a Link has: xyz and rpy of the transform it was created with.
LinkOriginAttrib(T) == << <<"xyz", T[2]>>, <<"rpy", T[1]>> >>

\* C21: every Link has a visual block holding a geometry reference and the
\* Link's origin (the xyz and rpy of its transform), a collision block whose
\* geometry has the tag and the attributes of the visual geometry and is
\* another element, and an inertial block with mass 1.0, diagonal inertia
\* 0.1 and off-diagonal inertia 0.0.
C21_LinkBlocks ==
    \A i \in LinkIdx :
        LET L == urdf_root[i]
        IN  /\ CountTag(L.visual, "geometry") >= 1
            /\ Len(L.geometry) = 1
            /\ \E k \in DOMAIN L.visual :
                   /\ L.visual[k].tag = "origin"
                   /\ Len(L.visual[k].attrib) = 2
                   /\ L.visual[k].attrib = LinkOriginAttrib(L.transform)
            /\ CountTag(L.collision, "geometry") >= 1
            /\ Len(L.collision_geometry) = 1
            /\ L.collision_geometry[1].tag = L.geometry[1].tag
            /\ L.collision_geometry[1].filename = L.geometry[1].filename
            /\ L.collision_geometry[1].radius = L.geometry[1].radius
            /\ L.collision_geometry[1].length = L.geometry[1].length
            /\ L.collision_geometry[1].owner # L.geometry[1].owner
            /\ \E k \in DOMAIN L.inertial :
                   /\ L.inertial[k].tag = "mass"
                   /\ L.inertial[k].attrib = << <<"value", "1.0">> >>
            /\ \E k \in DOMAIN L.inertial :
                   /\ L.inertial[k].tag = "inertia"
                   /\ L.inertial[k].attrib =
                          << <<"ixx", "0.1">>, <<"ixy", "0.0">>, <<"ixz", "0.0">>,
                             <<"iyy", "0.1">>, <<"iyz", "0.0">>, <<"izz", "0.1">> >>

\* The value the geometry is to carry for an attribute: the default for a
\* missing value, the value itself otherwise.
EmittedFor(v, default) == IF v = <<>> THEN <<default>> ELSE v

\* C24: the geometry of a cylinder, sphere or cone Link carries the prim's
\* radius (and, for cylinder and cone, its height as length); 0.1 and 0.2
\* stand in exactly when the attribute has no value, and a value that is
\* there is carried unchanged.
C24_PrimitiveAttributes ==
    \A i \in LinkIdx :
        LET L == urdf_root[i]
            shape == ShapeOf(shapes, L.path)
        IN  (Len(L.geometry) = 1 /\ L.geometry[1].tag \in {"cylinder", "sphere", "cone"}) =>
                /\ L.geometry[1].radius = EmittedFor(shape.radius, DefaultRadius)
                /\ L.geometry[1].tag \in {"cylinder", "cone"} =>
                       L.geometry[1].length = EmittedFor(shape.height, DefaultHeight)
                /\ L.geometry[1].tag = "sphere" => L.geometry[1].length = <<>>

\* C28: in every Link the visual and the collision block hold exactly one
\* origin and one geometry element, and the inertial block holds exactly one
\* mass and one inertia element.
C28_BlockChildrenOnce ==
    \A i \in LinkIdx :
        /\ CountTag(urdf_root[i].visual, "origin") = 1
        /\ CountTag(urdf_root[i].visual, "geometry") = 1
        /\ CountTag(urdf_root[i].collision, "origin") = 1
        /\ CountTag(urdf_root[i].collision, "geometry") = 1
        /\ CountTag(urdf_root[i].inertial, "mass") = 1
        /\ CountTag(urdf_root[i].inertial, "inertia") = 1

\* C26: the pitch _quaternion_to_rpy returns is never NaN: the argument of
\* the arc sine, 2(qw*qy - qz*qx), lies in [-1, 1] when the arc sine is
\* taken, for every quaternion of a rotation.
C26_PitchNeverNaN ==
    rpy # <<>> =>
        /\ ~rpy[1].pitch.nan
        /\ rpy[1].pitch.y <= Unit * Unit
        /\ rpy[1].pitch.y >= -(Unit * Unit)

\* The recognised words in the order of their precedence, each with the
\* type it stands for.
TypeWords ==
    << <<"diffuse", "diffuse">>, <<"albedo", "diffuse">>, <<"basecolor", "diffuse">>,
       <<"normal", "normal">>, <<"bump", "normal">>,
       <<"roughness", "roughness">>,
       <<"metallic", "metallic">>, <<"metalness", "metallic">>,
       <<"specular", "specular">>,
       <<"emissive", "emissive">>,
       <<"opacity", "opacity">>, <<"alpha", "opacity">> >>

\* The words found in a lower-cased name, as positions of TypeWords.
WordsFound(n) == {k \in DOMAIN TypeWords : In(TypeWords[k][1], n)}

\* C25: determine_texture_type gives every name a type; the type is the one
\* of the first word of the precedence list that the lower-cased name
\* contains, whatever the case of the name, and unknown_<lower-cased name>
\* when it contains none.
C25_TextureTypeFirstMatch ==
    texture_type # <<>> =>
        LET n == lower(shader_name)
            found == WordsFound(n)
        IN  /\ found # {} =>
                   texture_type[1] =
                       TypeWords[CHOOSE k \in found : \A m \in found : k <= m][2]
            /\ found = {} => texture_type[1] = "unknown_" \o n
            /\ texture_type[1] = determine_texture_type(n)

\* A name in mixed case with a normal word before a diffuse word is given
\* the type diffuse.
C25_Witness ==
    /\ shader_name = "NormalALBEDO"
    /\ texture_type = <<"diffuse">>

\* The Joint type a physics-joint prim stands for.
MetadataType(prim) ==
    IF prim.kind = "RevoluteJoint" THEN "revolute"
    ELSE IF prim.kind = "PrismaticJoint" THEN "prismatic"
    ELSE IF prim.kind = "SphericalJoint" THEN "spherical"
    ELSE IF prim.kind = "D6Joint" THEN "continuous"
    ELSE "fixed"

\* C22: a Joint made by the walker has the type fixed; a Joint made for a
\* physics-joint prim has the type of that prim's metadata (revolute,
\* prismatic, spherical or continuous), and when the prim gives lower and
\* upper limits the Joint carries them with effort 100 and velocity 1.
C22_JointTypeFromMetadata ==
    /\ \A j \in JointIdx : urdf_root[j].type = <<"fixed">>
    /\ parsed = "yes" =>
           \A i \in DOMAIN usd.prims :
               (usd.prims[i].kind # "FixedJoint" /\ Len(usd.links) >= 2) =>
                   \E k \in DOMAIN joints :
                       /\ joints[k].name = usd.prims[i].name
                       /\ joints[k].type = MetadataType(usd.prims[i])
                       /\ (usd.prims[i].lower # <<>> /\ usd.prims[i].upper # <<>>) =>
                              /\ "limit" \in DOMAIN joints[k]
                              /\ joints[k].limit.lower = usd.prims[i].lower[1]
                              /\ joints[k].limit.upper = usd.prims[i].upper[1]
                              /\ joints[k].limit.effort = "100.0"
                              /\ joints[k].limit.velocity = "1.0"

\* C30: after a call of the writer that takes the textures by semantic
\* type, every texture file the call copied into the texture directory is
\* named by a map_ directive of the material file the call wrote.
C30_CopiedTextureIsReferenced ==
    mat_runs >= 1 =>
        \A c \in DOMAIN copies :
            \E i \in DOMAIN mtl :
                /\ mtl[i].key \in {"map_Kd", "map_bump", "map_Pr", "map_Pm", "map_Ks",
                                   "map_Ke", "map_d", "map_Ns", "map_Ka", "map_dump",
                                   "Pm", "Pr", "Ao"}
                /\ mtl[i].text = Basename(copies[c])

====
